---- MODULE Spec2Model ----
(***************************************************************************)
(* Order allocation engines of allocation-api                              *)
(* (app/services/allocation_engines): entry validation, the pro-rata,      *)
(* custom-weights and minimum-dispersion policies.                         *)
(*                                                                         *)
(* Numbers.  The engines compute on floats; the model computes on exact    *)
(* rationals.  Inputs (order quantity, prices, NAV, cash, positions, lot   *)
(* sizes) are integers.  Every quantity an engine derives (targets,        *)
(* allocations, remainders, totals) is a rational held as its numerator    *)
(* over the common denominator Den of the call; Scaled(x) brings an input  *)
(* quantity to that denominator.  Weights of the custom-weights policy are *)
(* numerators over WeightDen, max_concentration is a pair <<num, den>>.    *)
(* None and 0 are both falsy in Python: an absent price override and an    *)
(* absent max_concentration are held as 0.                                 *)
(***************************************************************************)
EXTENDS Integers, Sequences, FiniteSets, TLC

VARIABLES
  policy,            \* the engine that runs: which allocate() is called
  order,             \* Order: side, quantity, price (override, 0 when absent)
  security,          \* Security: price, min_denomination, spread_duration
  accounts,          \* List[Account]
  parameters,        \* Dict: base_metric, weights (insertion-ordered list of items)
  constraints,       \* AllocationConstraints
  pc,                \* position inside allocate()
  i,                 \* index of the loop over accounts / weights
  allocations,       \* dict account_id -> quantity, as its insertion-ordered items
  total_allocated,   \* local total_allocated (scaled)
  warnings,          \* local warnings list
  optimization,      \* minimum dispersion: the OptimizationResult in use
  rounded,           \* minimum dispersion: rounded_allocations
  result,            \* <<>> until allocate returns, then <<AllocationResult>>
  raised,            \* <<>>, or <<exception>> when allocate raised
  earlier,           \* how the earlier call with these arguments ended, if any
  round_remainder,   \* _round_allocations: local remainder (scaled)
  round_indices,     \* _round_allocations: local sorted_indices
  db,                \* rows of the allocations table, each with its details
  audit_log,         \* rows written by AuditService.log_action
  requests,          \* HTTP requests: endpoint, position in the handler, response
  uuids              \* number of uuid4() values drawn so far

inputs == <<policy, order, security, accounts, parameters, constraints>>
locals == <<pc, i, allocations, total_allocated, warnings, optimization, rounded>>
kernel == <<round_remainder, round_indices>>
http == <<db, audit_log, requests, uuids>>
vars == <<policy, order, security, accounts, parameters, constraints,
          pc, i, allocations, total_allocated, warnings, optimization, rounded,
          result, raised, earlier, round_remainder, round_indices,
          db, audit_log, requests, uuids>>

----------------------------------------------------------------------------
(* Bounds of the checked inputs *)

MaxQuantity == 3      \* order quantities 0..MaxQuantity
MaxNav == 2           \* account NAV 0..MaxNav
MaxCash == 3          \* account cash 0..MaxCash (and cash covering the order)

(* abs(total_weight - 1.0) > 0.001: the tolerance is 1/WeightTolDen.        *)
(* Weights are numerators over WeightDen, a grid four times finer than the  *)
(* tolerance: a sum that sits exactly on the tolerance is not a value the   *)
(* binary floats of the code can hold, sums just inside and just outside    *)
(* it are.                                                                  *)
WeightTolDen == 1000
WeightDen == 4 * WeightTolDen

----------------------------------------------------------------------------
(* Sequences and dicts *)

Range(s) == {s[k] : k \in 1..Len(s)}

RECURSIVE SumSeq(_)
SumSeq(s) == IF s = <<>> THEN 0 ELSE Head(s) + SumSeq(Tail(s))

Abs(x) == IF x < 0 THEN -x ELSE x

(* A Python dict is its list of items in insertion order *)
Keys(d) == {d[k].key : k \in 1..Len(d)}
Has(d, key) == key \in Keys(d)
Get(d, key) == (CHOOSE k \in 1..Len(d) : d[k].key = key)
GetValue(d, key) == d[Get(d, key)].value
GetOr(d, key, default) == IF Has(d, key) THEN GetValue(d, key) ELSE default
Put(d, key, value) ==
  IF Has(d, key) THEN [d EXCEPT ![Get(d, key)].value = value]
  ELSE Append(d, [key |-> key, value |-> value])
Values(d) == [k \in 1..Len(d) |-> d[k].value]

----------------------------------------------------------------------------
(* Numbers *)

(* order.price or security.price *)
EffectivePrice(o, s) == IF o.price # 0 THEN o.price ELSE s.price

TotalNav(accs) == SumSeq([k \in 1..Len(accs) |-> accs[k].nav])

(* _calculate_weights: the values the weights are taken from *)
MetricValues(accs, base_metric) ==
  [k \in 1..Len(accs) |->
     IF base_metric = "CUSTOM" /\ accs[k].metadata # <<>>
     THEN accs[k].metadata[1] ELSE accs[k].nav]

(* The denominator of the quantities of this call *)
Den ==
  CASE policy = "PRO_RATA" ->
         LET total == SumSeq(MetricValues(accounts, parameters.base_metric))
         IN IF total > 0 THEN total ELSE 1
    [] policy = "CUSTOM_WEIGHTS" ->
         \* quantity * weight is whole when quantity is a multiple of WeightDen
         IF order.quantity % WeightDen = 0 THEN 1 ELSE WeightDen
    [] OTHER ->
         IF TotalNav(accounts) > 0 THEN TotalNav(accounts)
         ELSE IF accounts # <<>> THEN Len(accounts) ELSE 1

Scaled(x) == x * Den

(* AllocationEngine.round_to_denomination: floor(q / L) * L *)
RoundToDenomination(quantity, min_denomination) ==
  (quantity \div min_denomination) * min_denomination

----------------------------------------------------------------------------
(* Entry validation, base.py *)

(* entry validation with the first two checks in the other order *)
ValidateInputsSwapped(o, s, accs, c) ==
     (IF o.quantity <= 0 THEN <<"INVALID_QUANTITY">> ELSE <<>>)
  \o (IF accs = <<>> THEN <<"NO_ACCOUNTS">> ELSE <<>>)
  \o (IF s.price <= 0 THEN <<"INVALID_PRICE">> ELSE <<>>)
  \o (IF c.min_allocation < s.min_denomination
      THEN <<"INVALID_MIN_ALLOCATION">> ELSE <<>>)

ValidateInputs(o, s, accs, c) ==
     (IF accs = <<>> THEN <<"NO_ACCOUNTS">> ELSE <<>>)
  \o (IF o.quantity <= 0 THEN <<"INVALID_QUANTITY">> ELSE <<>>)
  \o (IF s.price <= 0 THEN <<"INVALID_PRICE">> ELSE <<>>)
  \o (IF c.min_allocation < s.min_denomination
      THEN <<"INVALID_MIN_ALLOCATION">> ELSE <<>>)

(* an error result whose summary reports the order as allocated in full *)
ErrorResultNothingLeft(o, accs, errs) ==
  [allocations |-> <<>>,
   summary |-> [total_allocated |-> 0,
                unallocated |-> 0,
                allocation_rate |-> <<0, 1>>,
                accounts_allocated |-> 0,
                accounts_skipped |-> Len(accs)],
   warnings |-> <<>>,
   errors |-> errs,
   metadata |-> [engine |-> "none"]]

(* The result returned with errors: pro_rata.py 50-63, _create_error_result *)
ErrorResult(o, accs, errs) ==
  [allocations |-> <<>>,
   summary |-> [total_allocated |-> 0,
                unallocated |-> Scaled(o.quantity),
                allocation_rate |-> <<0, 1>>,
                accounts_allocated |-> 0,
                accounts_skipped |-> Len(accs)],
   warnings |-> <<>>,
   errors |-> errs,
   metadata |-> [engine |-> "none"]]

(* AllocationSummary and AllocationResult of a run without errors *)
Summary(o, total, n_allocated, n_skipped) ==
  [total_allocated |-> total,
   unallocated |-> Scaled(o.quantity) - total,
   allocation_rate |-> IF o.quantity > 0 THEN <<total, Scaled(o.quantity)>>
                       ELSE <<0, 1>>,
   accounts_allocated |-> n_allocated,
   accounts_skipped |-> n_skipped]

(* AllocationEngine.create_allocation_warnings *)
RECURSIVE CreateAllocationWarnings(_, _, _, _)
CreateAllocationWarnings(accs, allocs, s, c) ==
  IF accs = <<>> THEN <<>>
  ELSE LET account == Head(accs)
           allocated == GetOr(allocs, account.account_id, 0)
           cash_needed == c.min_allocation * s.price
       IN (IF ~Has(allocs, account.account_id) /\ c.respect_cash
              /\ account.available_cash < cash_needed
           THEN <<[type |-> "INSUFFICIENT_CASH", account_id |-> account.account_id]>>
           ELSE <<>>)
          \o (IF 0 < allocated /\ allocated < Scaled(c.min_allocation)
              THEN <<[type |-> "MIN_LOT_SIZE", account_id |-> account.account_id]>>
              ELSE <<>>)
          \o CreateAllocationWarnings(Tail(accs), allocs, s, c)

----------------------------------------------------------------------------
(* Pro-rata engine, pro_rata.py *)

(* ProRataAllocationEngine._apply_constraints; the warnings argument is     *)
(* never written                                                            *)
ProRataApplyConstraints(account, target_quantity, s, o, c) ==
  LET L == Scaled(s.min_denomination)
      price == EffectivePrice(o, s)
      q1 == IF c.round_to_denomination
            THEN RoundToDenomination(target_quantity, L) ELSE target_quantity
      affordable == Scaled(RoundToDenomination(account.available_cash \div price,
                                               s.min_denomination))
      cash_short == o.side = "BUY" /\ c.respect_cash
                    /\ q1 * price > Scaled(account.available_cash)
      q2 == IF cash_short THEN affordable
            ELSE IF o.side = "SELL" /\ q1 > Scaled(account.current_position)
            THEN RoundToDenomination(Scaled(account.current_position), L)
            ELSE q1
      mc == c.max_concentration
      over == mc[1] # 0 /\ account.nav > 0
              /\ q2 * price * mc[2] > mc[1] * Scaled(account.nav)
      cap == Scaled(RoundToDenomination((account.nav * mc[1]) \div (mc[2] * price),
                                        s.min_denomination))
  IN IF q1 < Scaled(c.min_allocation) THEN 0
     ELSE IF cash_short /\ affordable < Scaled(c.min_allocation) THEN 0
     ELSE IF over THEN cap
     ELSE q2

(* sorted(..., key=nav, reverse=True): stable, equal NAVs keep list order *)
RECURSIVE SortedByNavDesc(_)
SortedByNavDesc(accs) ==
  IF accs = <<>> THEN <<>>
  ELSE LET first == CHOOSE k \in 1..Len(accs) :
                      /\ \A j \in 1..Len(accs) : accs[j].nav <= accs[k].nav
                      /\ \A j \in 1..(k - 1) : accs[j].nav < accs[k].nav
           rest == [j \in 1..(Len(accs) - 1) |->
                      IF j < first THEN accs[j] ELSE accs[j + 1]]
       IN <<accs[first]>> \o SortedByNavDesc(rest)

(* the for loop of _distribute_remainder, lines 266-279 *)
RECURSIVE ProRataRemainderLoop(_, _, _, _, _)
ProRataRemainderLoop(sorted_accounts, remainder, allocs, s, c) ==
  IF sorted_accounts = <<>> \/ remainder < Scaled(s.min_denomination) THEN allocs
  ELSE LET account == Head(sorted_accounts)
           new_alloc == GetValue(allocs, account.account_id)
                          + Scaled(s.min_denomination)
       IN IF c.respect_cash
             /\ new_alloc * s.price <= Scaled(account.available_cash)
          THEN ProRataRemainderLoop(Tail(sorted_accounts),
                                    remainder - Scaled(s.min_denomination),
                                    Put(allocs, account.account_id, new_alloc), s, c)
          ELSE ProRataRemainderLoop(Tail(sorted_accounts), remainder, allocs, s, c)

(* a remainder pass that hands out lots without counting them down *)
RECURSIVE ProRataRemainderLoopUncounted(_, _, _, _, _)
ProRataRemainderLoopUncounted(sorted_accounts, remainder, allocs, s, c) ==
  IF sorted_accounts = <<>> \/ remainder < Scaled(s.min_denomination) THEN allocs
  ELSE LET account == Head(sorted_accounts)
           new_alloc == GetValue(allocs, account.account_id)
                          + Scaled(s.min_denomination)
       IN IF c.respect_cash
             /\ new_alloc * s.price <= Scaled(account.available_cash)
          THEN ProRataRemainderLoopUncounted(
                 Tail(sorted_accounts), remainder,
                 Put(allocs, account.account_id, new_alloc), s, c)
          ELSE ProRataRemainderLoopUncounted(Tail(sorted_accounts), remainder,
                                             allocs, s, c)

ProRataDistributeRemainderUncounted(remainder, allocs, accs, s, c) ==
  IF remainder < Scaled(s.min_denomination) THEN allocs
  ELSE ProRataRemainderLoopUncounted(
         SortedByNavDesc(SelectSeq(accs, LAMBDA a : Has(allocs, a.account_id))),
         remainder, allocs, s, c)

(* ProRataAllocationEngine._distribute_remainder *)
ProRataDistributeRemainder(remainder, allocs, accs, s, c) ==
  IF remainder < Scaled(s.min_denomination) THEN allocs
  ELSE ProRataRemainderLoop(
         SortedByNavDesc(SelectSeq(accs, LAMBDA a : Has(allocs, a.account_id))),
         remainder, allocs, s, c)

(* the AccountAllocationResult records, in the order of the accounts list *)
ProRataResults(accs, allocs, o, s) ==
  LET taken == SelectSeq(accs, LAMBDA a : Has(allocs, a.account_id))
  IN [k \in 1..Len(taken) |->
        [account_id |-> taken[k].account_id,
         allocated_quantity |-> GetValue(allocs, taken[k].account_id),
         available_cash |-> taken[k].available_cash]]

(* allocate, lines 47-76: validation, then the weights *)
ProRataValidate ==
  /\ policy = "PRO_RATA" /\ pc = "start"
  /\ LET errors == ValidateInputs(order, security, accounts, constraints)
     IN IF errors # <<>>
        THEN /\ result' = <<ErrorResult(order, accounts, errors)>>
             /\ pc' = "done"
        ELSE /\ result' = result
             /\ pc' = "allocate"
  /\ i' = 1
  /\ UNCHANGED <<kernel, http, inputs, earlier, allocations, total_allocated, warnings, optimization,
                 rounded, raised>>

(* allocate, lines 83-102: one turn of the loop over zip(accounts, weights) *)
ProRataAllocateAccount ==
  /\ policy = "PRO_RATA" /\ pc = "allocate" /\ i <= Len(accounts)
  /\ LET account == accounts[i]
         values == MetricValues(accounts, parameters.base_metric)
         weight_is_zero == SumSeq(values) = 0 \/ values[i] = 0
         \* order.quantity * weight, over Den
         target_quantity == order.quantity * values[i]
         allocated_quantity ==
           ProRataApplyConstraints(account, target_quantity, security, order,
                                   constraints)
     IN IF ~weight_is_zero /\ allocated_quantity > 0
        THEN /\ allocations' = Put(allocations, account.account_id,
                                   allocated_quantity)
             /\ total_allocated' = total_allocated + allocated_quantity
        ELSE UNCHANGED <<allocations, total_allocated>>
  /\ i' = i + 1
  /\ UNCHANGED <<kernel, http, inputs, earlier, pc, warnings, optimization, rounded, result, raised>>

(* the remainder pass writing the cash spent back into the Account records *)
ProRataRemainderDebiting ==
  /\ policy = "PRO_RATA" /\ pc = "allocate" /\ i > Len(accounts)
  /\ IF total_allocated < Scaled(order.quantity)
     THEN LET after == ProRataDistributeRemainder(
                         Scaled(order.quantity) - total_allocated, allocations,
                         accounts, security, constraints)
          IN /\ allocations' = after
             /\ total_allocated' = SumSeq(Values(after))
     ELSE UNCHANGED <<allocations, total_allocated>>
  /\ accounts' = [k \in DOMAIN accounts |->
                   IF Has(allocations', accounts[k].account_id)
                   THEN [accounts[k] EXCEPT !.available_cash = 0]
                   ELSE accounts[k]]
  /\ pc' = "results"
  /\ UNCHANGED <<kernel, http, policy, order, security, parameters, constraints, earlier, i,
                 warnings, optimization, rounded, result, raised>>

(* allocate, lines 104-114: the remainder pass *)
ProRataRemainder ==
  /\ policy = "PRO_RATA" /\ pc = "allocate" /\ i > Len(accounts)
  /\ IF total_allocated < Scaled(order.quantity)
     THEN LET after == ProRataDistributeRemainder(
                         Scaled(order.quantity) - total_allocated, allocations,
                         accounts, security, constraints)
          IN /\ allocations' = after
             /\ total_allocated' = SumSeq(Values(after))
     ELSE UNCHANGED <<allocations, total_allocated>>
  /\ pc' = "results"
  /\ UNCHANGED <<kernel, http, inputs, earlier, i, warnings, optimization, rounded, result, raised>>

(* allocate, lines 116-165: results, warnings, summary, return *)
ProRataReturn ==
  /\ policy = "PRO_RATA" /\ pc = "results"
  /\ LET allocation_results == ProRataResults(accounts, allocations, order, security)
         all_warnings == warnings \o CreateAllocationWarnings(
                            accounts, allocations, security, constraints)
     IN /\ warnings' = all_warnings
        /\ result' = <<[allocations |-> allocation_results,
                        summary |-> Summary(order, total_allocated,
                                            Len(allocation_results),
                                            Len(accounts) - Len(allocation_results)),
                        warnings |-> all_warnings,
                        errors |-> <<>>,
                        metadata |-> [engine |-> policy]]>>
  /\ pc' = "done"
  /\ UNCHANGED <<kernel, http, inputs, earlier, i, allocations, total_allocated, optimization, rounded,
                 raised>>

NextProRata ==
  \/ ProRataValidate
  \/ ProRataAllocateAccount
  \/ ProRataRemainder
  \/ ProRataReturn

----------------------------------------------------------------------------
(* Custom-weights engine, custom_weights.py *)

(* The names custom_weights.py binds from allocation_engines.base,          *)
(* lines 8-19                                                               *)
CustomWeightsImports ==
  {"AllocationEngine", "AllocationResult", "AllocationSummary",
   "AccountAllocationResult", "Account", "Security", "Order",
   "AllocationConstraints", "AllocationWarning", "AllocationError"}

(* Evaluating AllocationWarningType.X in custom_weights.py raises NameError *)
(* unless the module binds the name                                         *)
WarningTypeBound == "AllocationWarningType" \in CustomWeightsImports

WeightSum(weights_dict) == SumSeq(Values(weights_dict))

(* the per-weight errors of _validate_weights, lines 190-202 *)
RECURSIVE WeightRangeErrors(_)
WeightRangeErrors(weights_dict) ==
  IF weights_dict = <<>> THEN <<>>
  ELSE (IF Head(weights_dict).value < 0 THEN <<"NEGATIVE_WEIGHT">>
        ELSE IF Head(weights_dict).value > WeightDen THEN <<"WEIGHT_EXCEEDS_ONE">>
        ELSE <<>>)
       \o WeightRangeErrors(Tail(weights_dict))

(* weight validation that compares the signed difference, without abs *)
ValidateWeightsSigned(weights_dict) ==
  IF weights_dict = <<>> THEN <<"NO_WEIGHTS">>
  ELSE (IF (WeightSum(weights_dict) - WeightDen) * WeightTolDen > WeightDen
        THEN <<"INVALID_WEIGHT_SUM">> ELSE <<>>)
       \o WeightRangeErrors(weights_dict)

(* CustomWeightsAllocationEngine._validate_weights *)
ValidateWeights(weights_dict) ==
  IF weights_dict = <<>> THEN <<"NO_WEIGHTS">>
  ELSE (IF Abs(WeightSum(weights_dict) - WeightDen) * WeightTolDen > WeightDen
        THEN <<"INVALID_WEIGHT_SUM">> ELSE <<>>)
       \o WeightRangeErrors(weights_dict)

(* account_lookup[account_id] *)
Lookup(accs, account_id) ==
  accs[CHOOSE k \in 1..Len(accs) :
         /\ accs[k].account_id = account_id
         /\ \A j \in (k + 1)..Len(accs) : accs[j].account_id # account_id]

AccountIdsOf(accs) == {accs[k].account_id : k \in 1..Len(accs)}

(* CustomWeightsAllocationEngine._apply_constraints: the quantity returned  *)
(* and the warnings it appends on the way                                   *)
CustomWeightsApplyConstraints(account, target_quantity, s, o, c) ==
  LET L == Scaled(s.min_denomination)
      price == EffectivePrice(o, s)
      q1 == IF c.round_to_denomination
            THEN RoundToDenomination(target_quantity, L) ELSE target_quantity
      new_quantity == Scaled(RoundToDenomination(account.available_cash \div price,
                                                 s.min_denomination))
      cash_short == o.side = "BUY" /\ c.respect_cash
                    /\ q1 * price > Scaled(account.available_cash)
      position_short == o.side = "SELL" /\ q1 > Scaled(account.current_position)
      reduced == RoundToDenomination(Scaled(account.current_position), L)
      warn(t) == <<[type |-> t, account_id |-> account.account_id]>>
  IN IF q1 < Scaled(c.min_allocation)
     THEN [quantity |-> 0,
           warnings |-> IF target_quantity > 0 THEN warn("MIN_LOT_SIZE") ELSE <<>>]
     ELSE IF cash_short
     THEN IF new_quantity < Scaled(c.min_allocation)
          THEN [quantity |-> 0, warnings |-> warn("INSUFFICIENT_CASH")]
          ELSE [quantity |-> new_quantity, warnings |-> <<>>]
     ELSE IF position_short
     THEN [quantity |-> reduced,
           warnings |-> IF reduced < target_quantity THEN warn("COMPLIANCE")
                        ELSE <<>>]
     ELSE [quantity |-> q1, warnings |-> <<>>]

(* the for loop of _handle_unallocated, lines 290-314, over the snapshot    *)
(* list(allocations.items())                                                *)
RECURSIVE HandleUnallocatedLoop(_, _, _, _, _, _, _, _)
HandleUnallocatedLoop(items, unallocated, total, allocs, accs, s, o, c) ==
  IF items = <<>> \/ unallocated < Scaled(s.min_denomination) THEN allocs
  ELSE LET account == Lookup(accs, Head(items).key)
           current_allocation == Head(items).value
           L == Scaled(s.min_denomination)
           \* floor((unallocated * current / total) / L) * L
           additional_rounded ==
             IF total > 0
             THEN ((unallocated * current_allocation) \div (total * L)) * L
             ELSE 0
           new_total == current_allocation + additional_rounded
           price == EffectivePrice(o, s)
           accepted ==
             /\ additional_rounded >= L
             /\ IF o.side = "BUY" /\ c.respect_cash
                THEN new_total * price <= Scaled(account.available_cash)
                ELSE o.side = "SELL"
                     /\ new_total <= Scaled(account.current_position)
       IN IF accepted
          THEN HandleUnallocatedLoop(Tail(items), unallocated - additional_rounded,
                                     total, Put(allocs, Head(items).key, new_total),
                                     accs, s, o, c)
          ELSE HandleUnallocatedLoop(Tail(items), unallocated, total, allocs,
                                     accs, s, o, c)

(* CustomWeightsAllocationEngine._handle_unallocated *)
HandleUnallocated(unallocated, allocs, accs, s, o, c) ==
  IF unallocated < Scaled(s.min_denomination) \/ allocs = <<>> THEN allocs
  ELSE HandleUnallocatedLoop(allocs, unallocated, SumSeq(Values(allocs)), allocs,
                             accs, s, o, c)

(* allocate, lines 128-134: warnings for weighted accounts left out *)
RECURSIVE SkippedWeightWarnings(_, _, _, _, _)
SkippedWeightWarnings(weights_dict, allocs, accs, s, c) ==
  IF weights_dict = <<>> THEN <<>>
  ELSE (IF Head(weights_dict).value > 0 /\ ~Has(allocs, Head(weights_dict).key)
           /\ Head(weights_dict).key \in AccountIdsOf(accs)
        THEN CreateAllocationWarnings(<<Lookup(accs, Head(weights_dict).key)>>,
                                      <<>>, s, c)
        ELSE <<>>)
       \o SkippedWeightWarnings(Tail(weights_dict), allocs, accs, s, c)

(* the AccountAllocationResult records, in the order of allocations.items() *)
CustomWeightsResults(accs, allocs) ==
  [k \in 1..Len(allocs) |->
     [account_id |-> allocs[k].key,
      allocated_quantity |-> allocs[k].value,
      available_cash |-> Lookup(accs, allocs[k].key).available_cash]]

(* allocate, lines 47-56: entry validation, then the weights *)
CustomWeightsValidate ==
  /\ policy = "CUSTOM_WEIGHTS" /\ pc = "start"
  /\ LET errors == ValidateInputs(order, security, accounts, constraints)
         weight_errors == ValidateWeights(parameters.weights)
     IN IF errors # <<>>
        THEN /\ result' = <<ErrorResult(order, accounts, errors)>>
             /\ pc' = "done"
        ELSE IF weight_errors # <<>>
        THEN /\ result' = <<ErrorResult(order, accounts, weight_errors)>>
             /\ pc' = "done"
        ELSE /\ result' = result
             /\ pc' = "allocate"
  /\ i' = 1
  /\ UNCHANGED <<kernel, http, inputs, earlier, allocations, total_allocated, warnings, optimization,
                 rounded, raised>>

(* The products order.quantity * weight of the checked inputs that the      *)
(* double arithmetic of the code rounds to just below the exact product:    *)
(* 100 * 0.57 evaluates to 56.99999999999999.  The weight is a numerator    *)
(* over WeightDen.                                                          *)
ProductsRoundedBelow == {<<100, (57 * WeightDen) \div 100>>}

(* allocate, line 86: target_quantity = order.quantity * weight, over Den;  *)
(* a product rounded below the exact one is held one unit of Den below it   *)
FloatProduct(quantity, weight) ==
  LET exact == (Scaled(quantity) * weight) \div WeightDen
  IN IF <<quantity, weight>> \in ProductsRoundedBelow THEN exact - 1 ELSE exact

(* allocate, lines 73-100: one turn of the loop over weights_dict.items() *)
CustomWeightsAllocateWeight ==
  /\ policy = "CUSTOM_WEIGHTS" /\ pc = "allocate" /\ i <= Len(parameters.weights)
  /\ LET account_id == parameters.weights[i].key
         weight == parameters.weights[i].value
         known == account_id \in AccountIdsOf(accounts)
         target_quantity == FloatProduct(order.quantity, weight)
         applied == CustomWeightsApplyConstraints(
                      Lookup(accounts, account_id), target_quantity, security,
                      order, constraints)
         new_warnings ==
           IF known THEN applied.warnings
           ELSE <<[type |-> "COMPLIANCE", account_id |-> account_id]>>
     IN IF new_warnings # <<>> /\ ~WarningTypeBound
        THEN /\ raised' = <<"NameError">>
             /\ pc' = "raised"
             /\ UNCHANGED <<i, allocations, total_allocated, warnings>>
        ELSE /\ warnings' = warnings \o new_warnings
             /\ IF known /\ applied.quantity > 0
                THEN /\ allocations' = Put(allocations, account_id, applied.quantity)
                     /\ total_allocated' = total_allocated + applied.quantity
                ELSE UNCHANGED <<allocations, total_allocated>>
             /\ i' = i + 1
             /\ UNCHANGED <<pc, raised>>
  /\ UNCHANGED <<kernel, http, inputs, earlier, optimization, rounded, result>>

(* allocate, lines 102-115: the unallocated quantity *)
CustomWeightsUnallocated ==
  /\ policy = "CUSTOM_WEIGHTS" /\ pc = "allocate" /\ i > Len(parameters.weights)
  /\ IF total_allocated < Scaled(order.quantity)
     THEN LET after == HandleUnallocated(
                         Scaled(order.quantity) - total_allocated, allocations,
                         accounts, security, order, constraints)
          IN /\ allocations' = after
             /\ total_allocated' = SumSeq(Values(after))
     ELSE UNCHANGED <<allocations, total_allocated>>
  /\ pc' = "results"
  /\ UNCHANGED <<kernel, http, inputs, earlier, i, warnings, optimization, rounded, result, raised>>

(* allocate, lines 117-167: results, warnings, summary, return *)
CustomWeightsReturn ==
  /\ policy = "CUSTOM_WEIGHTS" /\ pc = "results"
  /\ LET allocation_results == CustomWeightsResults(accounts, allocations)
         all_warnings == warnings \o SkippedWeightWarnings(
                            parameters.weights, allocations, accounts, security,
                            constraints)
         positive == SelectSeq(parameters.weights, LAMBDA w : w.value > 0)
     IN /\ warnings' = all_warnings
        /\ result' = <<[allocations |-> allocation_results,
                        summary |-> Summary(order, total_allocated,
                                            Len(allocation_results),
                                            Len(positive) - Len(allocation_results)),
                        warnings |-> all_warnings,
                        errors |-> <<>>,
                        metadata |-> [engine |-> policy]]>>
  /\ pc' = "done"
  /\ UNCHANGED <<kernel, http, inputs, earlier, i, allocations, total_allocated, optimization, rounded,
                 raised>>

NextCustomWeights ==
  \/ CustomWeightsValidate
  \/ CustomWeightsAllocateWeight
  \/ CustomWeightsUnallocated
  \/ CustomWeightsReturn

----------------------------------------------------------------------------
(* Minimum-dispersion engine, minimum_dispersion.py *)

(* _optimize_allocation, lines 270-277: pro-rata by NAV, else uniform *)
InitialGuess(o, accs) ==
  [k \in 1..Len(accs) |->
     IF TotalNav(accs) > 0 THEN o.quantity * accs[k].nav ELSE o.quantity]

(* _optimize_allocation, lines 257-268: x[k] <= max_alloc of account k *)
WithinBounds(x, o, s, accs) ==
  \A k \in 1..Len(accs) :
    /\ x[k] >= 0
    /\ x[k] <= Scaled(o.quantity)
    /\ IF o.side = "BUY"
       THEN x[k] * EffectivePrice(o, s) <= Scaled(accs[k].available_cash)
       ELSE x[k] <= Scaled(accs[k].current_position)

(* The points minimize(method='SLSQP') may return with success: they meet   *)
(* the equality constraint (lines 235-238), the inequality constraints      *)
(* (lines 240-255), which repeat the bounds, and the bounds                 *)
SolverPoints(o, s, accs) ==
  {x \in [1..Len(accs) -> 0..Scaled(o.quantity)] :
     /\ SumSeq(x) = Scaled(o.quantity)
     /\ WithinBounds(x, o, s, accs)}

(* _fallback_prorata splitting the order evenly instead of by NAV, as the    *)
(* initial guess does when no account has NAV                               *)
FallbackProrataUniform(o, accs) ==
  [allocations |-> [k \in 1..Len(accs) |-> Scaled(o.quantity) \div Len(accs)],
   success |-> TRUE,
   message |-> "Fallback to pro-rata"]

(* MinimumDispersionAllocationEngine._fallback_prorata *)
FallbackProrata(o, accs) ==
  [allocations |-> [k \in 1..Len(accs) |->
                      IF TotalNav(accs) > 0 THEN o.quantity * accs[k].nav ELSE 0],
   success |-> TRUE,
   message |-> "Fallback to pro-rata"]

(* np.argsort(fractional_parts)[::-1]: indices by descending fractional     *)
(* part; equal parts come out by descending index (argsort keeps equal      *)
(* entries in index order on arrays this short, [::-1] reverses them)       *)
RECURSIVE ArgsortReversed(_, _)
ArgsortReversed(fractional_parts, left) ==
  IF left = {} THEN <<>>
  ELSE LET top == CHOOSE k \in left :
                    \A j \in left :
                      \/ fractional_parts[j] < fractional_parts[k]
                      \/ fractional_parts[j] = fractional_parts[k] /\ j <= k
       IN <<top>> \o ArgsortReversed(fractional_parts, left \ {top})

(* _round_allocations, lines 409-415: the while loop and its for loop;      *)
(* k is the position of the for loop in sorted_indices                      *)
RECURSIVE RoundRemainderLoop(_, _, _, _, _)
RoundRemainderLoop(rounded_now, remainder, sorted_indices, k, min_denomination) ==
  IF remainder < min_denomination THEN rounded_now
  ELSE LET idx == sorted_indices[k]
       IN RoundRemainderLoop(
            [rounded_now EXCEPT ![idx] = @ + min_denomination],
            remainder - min_denomination, sorted_indices,
            IF k = Len(sorted_indices) THEN 1 ELSE k + 1, min_denomination)

(* MinimumDispersionAllocationEngine._round_allocations *)
RoundAllocations(allocs, min_denomination, total_quantity) ==
  LET floored == [k \in 1..Len(allocs) |->
                    RoundToDenomination(allocs[k], min_denomination)]
      remainder == total_quantity - SumSeq(floored)
      fractional_parts == [k \in 1..Len(allocs) |-> allocs[k] - floored[k]]
  IN IF remainder >= min_denomination
     THEN RoundRemainderLoop(floored, remainder,
                             ArgsortReversed(fractional_parts, 1..Len(allocs)),
                             1, min_denomination)
     ELSE floored

(* _apply_final_constraints checking the cash of buys only *)
ApplyFinalConstraintsCashOnly(account, allocated_quantity, s, o, c) ==
  IF o.side = "BUY" /\ c.respect_cash
     /\ allocated_quantity * s.price > Scaled(account.available_cash)
  THEN 0
  ELSE allocated_quantity

(* MinimumDispersionAllocationEngine._apply_final_constraints *)
ApplyFinalConstraints(account, allocated_quantity, s, o, c) ==
  IF o.side = "BUY" /\ c.respect_cash
  THEN IF allocated_quantity * EffectivePrice(o, s) > Scaled(account.available_cash)
       THEN 0 ELSE allocated_quantity
  ELSE IF o.side = "SELL" /\ allocated_quantity > Scaled(account.current_position)
  THEN 0
  ELSE allocated_quantity

(* allocate, lines 118-125: the loop keeping the rounded allocations that   *)
(* reach min_allocation and pass the final check                            *)
RECURSIVE FinalAllocations(_, _, _, _, _, _)
FinalAllocations(k, accs, rounded_now, s, o, c) ==
  IF k > Len(accs) THEN <<>>
  ELSE LET final_qty == ApplyFinalConstraints(accs[k], rounded_now[k], s, o, c)
       IN (IF rounded_now[k] >= Scaled(c.min_allocation) /\ final_qty > 0
           THEN <<[key |-> accs[k].account_id, value |-> final_qty]>>
           ELSE <<>>)
          \o FinalAllocations(k + 1, accs, rounded_now, s, o, c)

(* Account fields with their dataclass defaults (base.py lines 36-40) *)
ActiveSpreadDuration(account) ==
  IF "active_spread_duration" \in DOMAIN account
  THEN account.active_spread_duration ELSE 0

SpreadDuration(account) ==
  IF "spread_duration" \in DOMAIN account THEN account.spread_duration ELSE 0

PortfolioDuration(account) ==
  IF "portfolio_duration" \in DOMAIN account THEN account.portfolio_duration ELSE 0

(* parameters.get("target_metric", "ACTIVE_SPREAD_DURATION"), line 70 *)
TargetMetric ==
  IF "target_metric" \in DOMAIN parameters
  THEN parameters.target_metric ELSE "ACTIVE_SPREAD_DURATION"

(* Metrics are rationals <<numerator, denominator>>, denominator > 0 *)
SameMetric(a, b) == a[1] * b[2] = b[1] * a[2]

(* _calculate_post_trade_metrics_array, lines 325-345: the post-trade       *)
(* ACTIVE_SPREAD_DURATION of an account at allocation alloc (scaled)        *)
ObjectiveActiveSpreadDuration(account, alloc, s, o) ==
  LET price == EffectivePrice(o, s)
      position_change == IF o.side = "BUY" THEN alloc ELSE -alloc
  IN IF alloc = 0 \/ account.nav <= 0
     THEN <<ActiveSpreadDuration(account), 1>>
     ELSE <<ActiveSpreadDuration(account) * account.nav * Den
              + position_change * price * s.spread_duration,
            account.nav * Den>>

(* _calculate_post_trade_metrics_array, lines 347-356: the DURATION branch  *)
(* reads current_mv and new_mv, which only the ACTIVE_SPREAD_DURATION       *)
(* branch assigns: UnboundLocalError for an account with NAV and a non-zero *)
(* allocation.  minimize evaluates the objective at the initial guess       *)
(* first, where every account with NAV has a non-zero allocation.           *)
ObjectiveRaises ==
  /\ TargetMetric = "DURATION"
  /\ TotalNav(accounts) > 0

(* AllocationEngine.calculate_post_trade_metrics, base.py lines 254-288:    *)
(* active_spread_duration of the TradeMetrics it returns                    *)
ReportedActiveSpreadDuration(account, allocated_quantity, s, side) ==
  LET position_change == IF side = "BUY" THEN allocated_quantity
                         ELSE -allocated_quantity
      current_position == Scaled(account.current_position)
      new_position == current_position + position_change
  IN IF account.nav <= 0 THEN <<0, 1>>
     ELSE IF new_position > 0
     THEN <<s.price * (SpreadDuration(account) * current_position
                       + s.spread_duration * position_change),
            Den * account.nav>>
     ELSE <<new_position * s.price * SpreadDuration(account), Den * account.nav>>

(* allocate, lines 131-143: post_trade_metrics, the list handed to          *)
(* _calculate_dispersion_metrics; _extract_metric_value, lines 485-494      *)
ReportedPostTradeMetrics(accs, allocs, s, o) ==
  LET taken == SelectSeq(accs, LAMBDA a : Has(allocs, a.account_id))
  IN [k \in 1..Len(taken) |->
        IF TargetMetric = "DURATION"
        THEN <<PortfolioDuration(taken[k]), 1>>
        ELSE ReportedActiveSpreadDuration(taken[k],
                                          GetValue(allocs, taken[k].account_id),
                                          s, o.side)]

(* allocate, lines 64-67 *)
MinDispersionValidate ==
  /\ policy = "MIN_DISPERSION" /\ pc = "start"
  /\ LET errors == ValidateInputs(order, security, accounts, constraints)
     IN IF errors # <<>>
        THEN /\ result' = <<ErrorResult(order, accounts, errors)>>
             /\ pc' = "done"
        ELSE /\ result' = result
             /\ pc' = "optimize"
  /\ UNCHANGED <<kernel, http, inputs, earlier, i, allocations, total_allocated, warnings, optimization,
                 rounded, raised>>

(* minimize computes its result from its arguments alone: called again     *)
(* with the arguments of the earlier call it succeeds with the same point,  *)
(* or fails again                                                           *)
SolverRepeats(outcome) ==
  IF earlier = <<>> THEN TRUE
  ELSE IF earlier[1].optimization = <<>> THEN TRUE
  ELSE IF earlier[1].optimization[1].message = "Fallback to pro-rata"
  THEN ~outcome.success
  ELSE outcome = earlier[1].optimization[1]

(* _optimize_allocation, lines 279-300: minimize returns, converged at a    *)
(* feasible point or not converged                                          *)
MinDispersionSolverReturns ==
  /\ policy = "MIN_DISPERSION" /\ pc = "optimize"
  /\ ~ObjectiveRaises
  /\ \/ \E x \in SolverPoints(order, security, accounts) :
          optimization' = <<[allocations |-> x, success |-> TRUE,
                             message |-> "Optimization terminated successfully"]>>
     \/ \E x \in [1..Len(accounts) -> {0, Scaled(order.quantity)}] :
          optimization' = <<[allocations |-> x, success |-> FALSE,
                             message |-> "Iteration limit reached"]>>
  /\ SolverRepeats(optimization'[1])
  /\ pc' = "optimized"
  /\ UNCHANGED <<kernel, http, inputs, earlier, i, allocations, total_allocated, warnings, rounded,
                 result, raised>>

(* _optimize_allocation, lines 302-310: minimize raises *)
MinDispersionSolverRaises ==
  /\ policy = "MIN_DISPERSION" /\ pc = "optimize"
  /\ optimization' = <<[allocations |-> InitialGuess(order, accounts),
                        success |-> FALSE,
                        message |-> IF ObjectiveRaises THEN "UnboundLocalError"
                                    ELSE "exception"]>>
  /\ SolverRepeats(optimization'[1])
  /\ pc' = "optimized"
  /\ UNCHANGED <<kernel, http, inputs, earlier, i, allocations, total_allocated, warnings, rounded,
                 result, raised>>

(* allocate, lines 96-112: the fallback when the optimization did not       *)
(* succeed, then the rounding                                               *)
MinDispersionRound ==
  /\ policy = "MIN_DISPERSION" /\ pc = "optimized"
  /\ LET used == IF ~optimization[1].success
                 THEN FallbackProrata(order, accounts) ELSE optimization[1]
     IN /\ optimization' = <<used>>
        /\ rounded' = RoundAllocations(used.allocations,
                                       Scaled(security.min_denomination),
                                       Scaled(order.quantity))
  /\ pc' = "rounded"
  /\ UNCHANGED <<kernel, http, inputs, earlier, i, allocations, total_allocated, warnings, result, raised>>

(* allocate, lines 114-125 *)
MinDispersionFinalConstraints ==
  /\ policy = "MIN_DISPERSION" /\ pc = "rounded"
  /\ allocations' = FinalAllocations(1, accounts, rounded, security, order,
                                     constraints)
  /\ pc' = "results"
  /\ UNCHANGED <<kernel, http, inputs, earlier, i, total_allocated, warnings, optimization, rounded,
                 result, raised>>

(* allocate, lines 127-196: results, warnings, summary, return *)
MinDispersionReturn ==
  /\ policy = "MIN_DISPERSION" /\ pc = "results"
  /\ LET allocation_results == ProRataResults(accounts, allocations, order, security)
         total == SumSeq(Values(allocations))
         all_warnings == warnings \o CreateAllocationWarnings(
                            accounts, allocations, security, constraints)
     IN /\ total_allocated' = total
        /\ warnings' = all_warnings
        /\ result' = <<[allocations |-> allocation_results,
                        summary |-> Summary(order, total, Len(allocation_results),
                                            Len(accounts) - Len(allocation_results)),
                        warnings |-> all_warnings,
                        errors |-> <<>>,
                        post_trade_metrics |->
                          ReportedPostTradeMetrics(accounts, allocations, security,
                                                   order),
                        metadata |-> [engine |-> policy,
                                      optimization_success |->
                                        optimization[1].success]]>>
  /\ pc' = "done"
  /\ UNCHANGED <<kernel, http, inputs, earlier, i, allocations, optimization, rounded, raised>>

NextMinDispersion ==
  \/ MinDispersionValidate
  \/ MinDispersionSolverReturns
  \/ MinDispersionSolverRaises
  \/ MinDispersionRound
  \/ MinDispersionFinalConstraints
  \/ MinDispersionReturn

Next ==
  \/ NextProRata
  \/ NextCustomWeights
  \/ NextMinDispersion

(* allocate returning with fresh locals as the start of every call: the     *)
(* caller keeps how the call ended and calls allocate on the same engine    *)
(* object with the same arguments once more.  The engine objects hold a     *)
(* name and a logger, nothing of a call; allocations, total_allocated and   *)
(* warnings are created anew at the start of allocate.                      *)
CallAgainKeepingWarnings ==
  /\ pc \in {"done", "raised"} /\ earlier = <<>>
  /\ earlier' = <<[result |-> result, raised |-> raised,
                   optimization |-> optimization]>>
  /\ pc' = "start" /\ i' = 1
  /\ allocations' = <<>> /\ total_allocated' = 0
  /\ optimization' = <<>> /\ rounded' = <<>>
  /\ result' = <<>> /\ raised' = <<>>
  /\ UNCHANGED <<kernel, http, inputs, warnings>>

CallAgain ==
  /\ pc \in {"done", "raised"} /\ earlier = <<>>
  /\ earlier' = <<[result |-> result, raised |-> raised,
                   optimization |-> optimization]>>
  /\ pc' = "start" /\ i' = 1
  /\ allocations' = <<>> /\ total_allocated' = 0 /\ warnings' = <<>>
  /\ optimization' = <<>> /\ rounded' = <<>>
  /\ result' = <<>> /\ raised' = <<>>
  /\ UNCHANGED <<kernel, http, inputs>>

NextTwice ==
  \/ Next
  \/ CallAgain

----------------------------------------------------------------------------
(* Inputs *)

AccountIds == <<"A1", "A2">>
Sides == {"BUY", "SELL"}

AccountRecords(id, navs, cashes, positions, metadatas) ==
  [account_id : {id}, nav : navs, available_cash : cashes,
   current_position : positions, metadata : metadatas]

(* locals at the call of allocate *)
InitLocals ==
  /\ pc = "start"
  /\ i = 1
  /\ allocations = <<>>
  /\ total_allocated = 0
  /\ warnings = <<>>
  /\ optimization = <<>>
  /\ rounded = <<>>
  /\ result = <<>>
  /\ raised = <<>>
  /\ earlier = <<>>
  /\ round_remainder = 0
  /\ round_indices = <<>>
  /\ db = <<>>
  /\ audit_log = <<>>
  /\ requests = <<>>
  /\ uuids = 0

(* Valid pro-rata calls on two accounts.  The cash varies where the engine  *)
(* reads it (respect_cash), the position on SELL orders; the custom metric  *)
(* is tried on accounts with cash and position for the whole order          *)
InitProRata ==
  /\ policy = "PRO_RATA"
  /\ order \in [side : Sides, quantity : 1..MaxQuantity, price : {0, 2}]
  /\ security \in [price : {1}, min_denomination : {1, 2}, spread_duration : {1}]
  /\ constraints \in [respect_cash : BOOLEAN,
                      min_allocation : security.min_denomination..2,
                      round_to_denomination : BOOLEAN,
                      max_concentration : {<<0, 1>>, <<1, 2>>}]
  /\ parameters \in [base_metric : {"NAV", "MARKET_VALUE", "CUSTOM"},
                     weights : {<<>>}]
  /\ LET plain == parameters.base_metric = "NAV"
         cashes == IF ~plain THEN {2 * order.quantity}
                   ELSE IF constraints.respect_cash
                   THEN (IF order.side = "BUY" THEN 0..MaxCash ELSE {0, MaxCash})
                   ELSE {0}
         positions == IF ~plain THEN {order.quantity}
                      ELSE IF order.side = "BUY" THEN {0} ELSE 0..2
         metadatas == IF parameters.base_metric = "CUSTOM" THEN {<<>>, <<2>>}
                      ELSE {<<>>}
         navs == IF plain THEN 0..MaxNav ELSE {0, 1}
     IN accounts \in
          {<<a, b>> : a \in AccountRecords(AccountIds[1], navs, cashes, positions,
                                           metadatas),
                      b \in AccountRecords(AccountIds[2], navs, cashes, positions,
                                           metadatas)}
  /\ InitLocals

SpecProRata == InitProRata /\ [][NextProRata]_vars

(* weights dicts of at most two items over the given keys and values *)
WeightDicts(keys, values) ==
  {<<>>}
  \cup {<<[key |-> k, value |-> v]>> : k \in keys, v \in values}
  \cup {<<[key |-> k1, value |-> v1], [key |-> k2, value |-> v2]>> :
          <<k1, k2>> \in {kk \in keys \X keys : kk[1] # kk[2]},
          <<v1, v2>> \in values \X values}

(* weights over WeightDen: -0.1, 0, 0.00025, 0.4, 0.49875, 0.49975, 0.5,    *)
(* 0.6, 1, 1.1; no two of them sum to exactly 1 - 0.001 or 1 + 0.001        *)
WeightValues == {-400, 0, 1, 1600, 1995, 1999, 2000, 2400, 4000, 4400}

(* Custom-weights calls that vary the weights: any weights dict, also with  *)
(* the id of no account, on two accounts with cash and position for the    *)
(* whole order                                                              *)
InitCustomWeightsAnyWeights ==
  /\ policy = "CUSTOM_WEIGHTS"
  /\ order \in [side : Sides, quantity : {2, WeightDen}, price : {0}]
  /\ security \in [price : {1}, min_denomination : {1}, spread_duration : {1}]
  /\ constraints \in [respect_cash : {TRUE}, min_allocation : {1},
                      round_to_denomination : BOOLEAN,
                      max_concentration : {<<0, 1>>, <<1, 2>>}]
  /\ parameters \in [base_metric : {"NAV"},
                     weights : WeightDicts({"A1", "A2", "ZZ"}, WeightValues)]
  /\ accounts = [k \in 1..2 |->
                   [account_id |-> AccountIds[k], nav |-> order.quantity,
                    available_cash |-> order.quantity,
                    current_position |-> order.quantity, metadata |-> <<>>]]

(* Custom-weights calls that vary the accounts and the constraints, with    *)
(* weights that sum to 1                                                    *)
InitCustomWeightsAnyAccounts ==
  /\ policy = "CUSTOM_WEIGHTS"
  /\ order \in [side : Sides, quantity : 1..MaxQuantity, price : {0, 2}]
  /\ security \in [price : {1}, min_denomination : {1, 2}, spread_duration : {1}]
  /\ constraints \in [respect_cash : BOOLEAN,
                      min_allocation : security.min_denomination..2,
                      round_to_denomination : BOOLEAN,
                      max_concentration : {<<1, 2>>}]
  /\ parameters \in
       [base_metric : {"NAV"},
        weights : {w \in WeightDicts({"A1", "A2"}, {0, 1600, 2000, 2400, 4000}) :
                     WeightSum(w) = WeightDen}]
  /\ LET cashes == IF order.side = "BUY" /\ constraints.respect_cash
                   THEN 0..MaxCash ELSE {0}
         positions == IF order.side = "BUY" THEN {0} ELSE 0..2
     IN accounts \in
          {<<a, b>> : a \in AccountRecords(AccountIds[1], {1}, cashes, positions,
                                           {<<>>}),
                      b \in AccountRecords(AccountIds[2], {1}, cashes, positions,
                                           {<<>>})}

(* Custom-weights calls in which every target is a whole number of lots:   *)
(* an order of 100 with weights in hundredths that sum to 1, on accounts    *)
(* with cash and position for the whole order                               *)
InitCustomWeightsWholeLots ==
  /\ policy = "CUSTOM_WEIGHTS"
  /\ order \in [side : Sides, quantity : {100}, price : {0}]
  /\ security \in [price : {1}, min_denomination : {1}, spread_duration : {1}]
  /\ constraints \in [respect_cash : BOOLEAN,
                      min_allocation : {1, 2},
                      round_to_denomination : {TRUE},
                      max_concentration : {<<0, 1>>}]
  /\ parameters \in
       [base_metric : {"NAV"},
        weights : {w \in WeightDicts({"A1", "A2"},
                                    {(h * WeightDen) \div 100 :
                                       h \in {25, 43, 50, 57, 75, 100}}) :
                     WeightSum(w) = WeightDen}]
  /\ accounts = [k \in 1..2 |->
                   [account_id |-> AccountIds[k], nav |-> order.quantity,
                    available_cash |-> order.quantity,
                    current_position |-> order.quantity, metadata |-> <<>>]]

InitCustomWeights ==
  /\ \/ InitCustomWeightsAnyWeights
     \/ InitCustomWeightsAnyAccounts
     \/ InitCustomWeightsWholeLots
  /\ InitLocals

SpecCustomWeights == InitCustomWeights /\ [][NextCustomWeights]_vars

(* Minimum-dispersion calls that pass entry validation: every order of the  *)
(* bounds on two accounts; cash varies for a BUY and the position for a     *)
(* SELL, which is where the engine reads them                               *)
InitMinDispersion ==
  /\ policy = "MIN_DISPERSION"
  /\ order \in [side : Sides, quantity : 1..MaxQuantity, price : {0, 2}]
  /\ security \in [price : {1}, min_denomination : {1, 2}, spread_duration : {1}]
  /\ constraints \in [respect_cash : BOOLEAN,
                      min_allocation : security.min_denomination..2,
                      round_to_denomination : {TRUE},
                      max_concentration : {<<0, 1>>}]
  /\ parameters = [base_metric |-> "NAV", weights |-> <<>>]
  /\ LET cashes == IF order.side = "BUY" THEN 0..MaxCash ELSE {0}
         positions == IF order.side = "BUY" THEN {0} ELSE 0..2
     IN accounts \in
          {<<a, b>> : a \in AccountRecords(AccountIds[1], 0..MaxNav, cashes,
                                           positions, {<<>>}),
                      b \in AccountRecords(AccountIds[2], 0..MaxNav, cashes,
                                           positions, {<<>>})}
  /\ InitLocals

SpecMinDispersion == InitMinDispersion /\ [][NextMinDispersion]_vars

(* Minimum-dispersion calls on accounts that carry the metrics: active      *)
(* spread duration, spread duration and portfolio duration, with the target *)
(* metric ACTIVE_SPREAD_DURATION or DURATION; every account has cash and    *)
(* position for the whole order                                             *)
InitMinDispersionMetrics ==
  /\ policy = "MIN_DISPERSION"
  /\ order \in [side : Sides, quantity : 1..MaxQuantity, price : {0, 2}]
  /\ security \in [price : {1}, min_denomination : {1}, spread_duration : {1}]
  /\ constraints = [respect_cash |-> TRUE, min_allocation |-> 1,
                    round_to_denomination |-> TRUE, max_concentration |-> <<0, 1>>]
  /\ parameters \in [base_metric : {"NAV"}, weights : {<<>>},
                      target_metric : {"ACTIVE_SPREAD_DURATION", "DURATION"}]
  /\ accounts \in
       {<<a, b>> :
          a \in [account_id : {AccountIds[1]}, nav : 0..MaxNav,
                 available_cash : {2 * order.quantity},
                 current_position : {order.quantity}, metadata : {<<>>},
                 active_spread_duration : {0, 1}, spread_duration : {0, 1},
                 portfolio_duration : {1}],
          b \in [account_id : {AccountIds[2]}, nav : 0..MaxNav,
                 available_cash : {2 * order.quantity},
                 current_position : {order.quantity}, metadata : {<<>>},
                 active_spread_duration : {0}, spread_duration : {0, 1},
                 portfolio_duration : {1}]}
  /\ InitLocals

SpecMinDispersionMetrics == InitMinDispersionMetrics /\ [][NextMinDispersion]_vars

(* Calls of the three engines that vary what entry validation reads: the    *)
(* account list may be empty, the quantity and the price non-positive, the  *)
(* minimum allocation below the lot size                                    *)
InitEntry ==
  /\ policy \in {"PRO_RATA", "CUSTOM_WEIGHTS", "MIN_DISPERSION"}
  /\ order \in [side : Sides, quantity : {-1, 0, 2, 3}, price : {0, 2}]
  /\ security \in [price : {-1, 0, 1}, min_denomination : {1, 2}, spread_duration : {1}]
  /\ constraints \in [respect_cash : BOOLEAN, min_allocation : {1, 2},
                      round_to_denomination : {TRUE},
                      max_concentration : {<<0, 1>>}]
  /\ parameters \in
       [base_metric : {"NAV"},
        weights : IF policy = "CUSTOM_WEIGHTS"
                  THEN {<<>>,
                        <<[key |-> "A1", value |-> WeightDen \div 2],
                          [key |-> "A2", value |-> WeightDen \div 2]>>,
                        <<[key |-> "A2", value |-> (WeightDen * 2) \div 5],
                          [key |-> "A1", value |-> WeightDen \div 2]>>}
                  ELSE {<<>>}]
  /\ accounts \in
       {<<>>}
       \cup {<<a>> : a \in AccountRecords(AccountIds[1], {1}, {2}, {2}, {<<>>})}
       \cup {<<a, b>> :
               a \in AccountRecords(AccountIds[1], {1}, {2}, {2}, {<<>>}),
               b \in AccountRecords(AccountIds[2], {0, 1}, {0, 2}, {0, 2}, {<<>>})}
  /\ InitLocals

Spec == InitEntry /\ [][Next]_vars

(* Two calls in a row with the same arguments *)
InitTwice ==
  \/ InitEntry
  \/ InitCustomWeightsWholeLots /\ InitLocals

SpecTwice == InitTwice /\ [][NextTwice]_vars

----------------------------------------------------------------------------
(* What a returned result says *)

Returned == result # <<>>
NoErrorResult == Returned /\ result[1].errors = <<>>
AllocatedQuantities ==
  [k \in 1..Len(result[1].allocations) |->
     result[1].allocations[k].allocated_quantity]
AccountOf(account_id) == Lookup(accounts, account_id)

(* rate <= 1 and rate >= 0 for a rate <<num, den>> with den > 0 *)
RateAtMostOne(rate) == rate[1] <= rate[2]

(* sum of the projections of the pro-rata targets, before the remainder pass *)
ProRataProjected ==
  LET values == MetricValues(accounts, parameters.base_metric)
  IN SumSeq([k \in 1..Len(accounts) |->
               IF SumSeq(values) = 0 \/ values[k] = 0 THEN 0
               ELSE ProRataApplyConstraints(accounts[k], order.quantity * values[k],
                                            security, order, constraints)])

----------------------------------------------------------------------------
(* C1: CUSTOM_WEIGHTS, weights that pass validation, result without errors: *)
(* the allocated quantities sum to at most order.quantity, so unallocated   *)
(* is not negative and allocation_rate is at most 1.                        *)
C1_CustomWeightsWithinOrder ==
  (policy = "CUSTOM_WEIGHTS" /\ NoErrorResult) =>
    /\ SumSeq(AllocatedQuantities) <= Scaled(order.quantity)
    /\ result[1].summary.unallocated >= 0
    /\ RateAtMostOne(result[1].summary.allocation_rate)

C3_ProRataCashRespected ==
  (policy = "PRO_RATA" /\ NoErrorResult /\ order.side = "BUY"
   /\ constraints.respect_cash) =>
    \A k \in 1..Len(result[1].allocations) :
      LET a == result[1].allocations[k]
      IN a.allocated_quantity * EffectivePrice(order, security)
           <= Scaled(AccountOf(a.account_id).available_cash)

(* C4: PRO_RATA, SELL: every account's final allocated quantity is at most  *)
(* its current position, lots of the remainder pass included.               *)
C4_ProRataPositionRespected ==
  (policy = "PRO_RATA" /\ NoErrorResult /\ order.side = "SELL") =>
    \A k \in 1..Len(result[1].allocations) :
      LET a == result[1].allocations[k]
      IN a.allocated_quantity <= Scaled(AccountOf(a.account_id).current_position)

(* C5: PRO_RATA and CUSTOM_WEIGHTS: every allocation of a result without    *)
(* errors is a multiple of security.min_denomination and at least           *)
(* constraints.min_allocation, also when it was reduced to the cash, the    *)
(* position or the concentration cap.  Stated for the calls that ask for    *)
(* rounding (round_to_denomination).                                        *)
C5_LotsAndMinimum ==
  (policy \in {"PRO_RATA", "CUSTOM_WEIGHTS"} /\ NoErrorResult
   /\ constraints.round_to_denomination) =>
    \A k \in 1..Len(result[1].allocations) :
      LET q == result[1].allocations[k].allocated_quantity
      IN /\ q % Scaled(security.min_denomination) = 0
         /\ q >= Scaled(constraints.min_allocation)

(* C6: every policy, max_concentration set: every account's final allocated *)
(* quantity times the effective price is at most max_concentration times    *)
(* the account's NAV.                                                       *)
C6_ConcentrationRespected ==
  (NoErrorResult /\ constraints.max_concentration[1] # 0) =>
    \A k \in 1..Len(result[1].allocations) :
      LET a == result[1].allocations[k]
          mc == constraints.max_concentration
      IN a.allocated_quantity * EffectivePrice(order, security) * mc[2]
           <= mc[1] * Scaled(AccountOf(a.account_id).nav)

(* C7: every policy: a result with errors has no allocations,               *)
(* total_allocated 0, allocation_rate 0 and unallocated = order.quantity.   *)
C7_ErrorsMeanNothingAllocated ==
  (Returned /\ result[1].errors # <<>>) =>
    /\ result[1].allocations = <<>>
    /\ result[1].summary.total_allocated = 0
    /\ result[1].summary.allocation_rate[1] = 0
    /\ result[1].summary.unallocated = Scaled(order.quantity)

(* C7 witness: an error result for a call that passed entry validation, so *)
(* that accounts stood ready to be allocated                                *)
C7_Witness ==
  /\ Returned /\ result[1].errors = <<"INVALID_WEIGHT_SUM">>
  /\ Len(accounts) = 2 /\ order.quantity > 0
  /\ result[1].summary.unallocated = Scaled(order.quantity)

(* the codes of entry validation, in the order of the checks *)
EntryCodes ==
  <<"NO_ACCOUNTS", "INVALID_QUANTITY", "INVALID_PRICE", "INVALID_MIN_ALLOCATION">>
EntryRank(code) == CHOOSE r \in 1..Len(EntryCodes) : EntryCodes[r] = code
EntryFails ==
  \/ accounts = <<>>
  \/ order.quantity <= 0
  \/ security.price <= 0
  \/ constraints.min_allocation < security.min_denomination

(* C8: every policy: NO_ACCOUNTS is reported iff the account list is empty, *)
(* INVALID_QUANTITY iff order.quantity <= 0, INVALID_PRICE iff the          *)
(* security price is <= 0, INVALID_MIN_ALLOCATION iff min_allocation is     *)
(* below min_denomination; the codes come in this order, each at most once, *)
(* and when a check fails allocate returns at once and allocates nothing.   *)
C8_EntryValidation ==
  pc # "start" =>
    /\ EntryFails => (Returned /\ pc = "done" /\ allocations = <<>>
                      /\ result[1].errors # <<>>
                      /\ result[1].allocations = <<>>
                      /\ Range(result[1].errors) \subseteq Range(EntryCodes))
    /\ Returned =>
         LET errs == result[1].errors
             codes == Range(errs)
         IN /\ "NO_ACCOUNTS" \in codes <=> accounts = <<>>
            /\ "INVALID_QUANTITY" \in codes <=> order.quantity <= 0
            /\ "INVALID_PRICE" \in codes <=> security.price <= 0
            /\ "INVALID_MIN_ALLOCATION" \in codes <=>
                 constraints.min_allocation < security.min_denomination
            /\ \A j, k \in 1..Len(errs) :
                 (j < k /\ errs[j] \in Range(EntryCodes)) =>
                   /\ errs[k] \in Range(EntryCodes)
                   /\ EntryRank(errs[j]) < EntryRank(errs[k])

(* C8 witness: a call with no accounts and a non-positive quantity (two     *)
(* codes, in order), made to the custom-weights engine                      *)
C8_Witness ==
  /\ Returned /\ policy = "CUSTOM_WEIGHTS"
  /\ Len(result[1].errors) >= 2
  /\ result[1].errors[1] = "NO_ACCOUNTS"
  /\ result[1].errors[2] = "INVALID_QUANTITY"

(* C9: CUSTOM_WEIGHTS, after entry validation: an empty weights dict gives  *)
(* NO_WEIGHTS alone; otherwise INVALID_WEIGHT_SUM is reported iff the sum   *)
(* is more than 0.001 away from 1, NEGATIVE_WEIGHT once per weight < 0,     *)
(* WEIGHT_EXCEEDS_ONE once per weight > 1; with any of them allocate        *)
(* returns an error result and allocates nothing; weights in [0,1] that     *)
(* sum to 0.9 give the single error INVALID_WEIGHT_SUM.                     *)
C9_WeightValidation ==
  (policy = "CUSTOM_WEIGHTS" /\ pc # "start" /\ ~EntryFails) =>
    LET w == parameters.weights
        total == SumSeq([k \in 1..Len(w) |-> w[k].value])
        sum_off == (total - WeightDen) * 1000 > WeightDen
                   \/ (WeightDen - total) * 1000 > WeightDen
        negative == {k \in 1..Len(w) : w[k].value < 0}
        above == {k \in 1..Len(w) : w[k].value > WeightDen}
        fatal == w = <<>> \/ sum_off \/ negative # {} \/ above # {}
        errs == IF Returned THEN result[1].errors ELSE <<>>
        count(code) == Cardinality({k \in 1..Len(errs) : errs[k] = code})
    IN /\ fatal => (Returned /\ pc = "done" /\ allocations = <<>>
                    /\ result[1].allocations = <<>> /\ errs # <<>>)
       /\ ~fatal => errs = <<>>
       /\ Returned =>
            /\ w = <<>> => errs = <<"NO_WEIGHTS">>
            /\ w # <<>> =>
                 /\ count("NO_WEIGHTS") = 0
                 /\ count("INVALID_WEIGHT_SUM") = (IF sum_off THEN 1 ELSE 0)
                 /\ count("NEGATIVE_WEIGHT") = Cardinality(negative)
                 /\ count("WEIGHT_EXCEEDS_ONE") = Cardinality(above)
            /\ (w # <<>> /\ total * 10 = WeightDen * 9
                /\ negative = {} /\ above = {}) =>
                 errs = <<"INVALID_WEIGHT_SUM">>

(* C9 witness: two weights in [0,1] that sum to 0.9, rejected *)
C9_Witness ==
  /\ policy = "CUSTOM_WEIGHTS" /\ Returned
  /\ Len(parameters.weights) = 2
  /\ WeightSum(parameters.weights) * 10 = WeightDen * 9
  /\ \A k \in 1..2 : parameters.weights[k].value \in 0..WeightDen
  /\ result[1].errors = <<"INVALID_WEIGHT_SUM">>

(* C10: CUSTOM_WEIGHTS, valid weights of which one names no supplied        *)
(* account: allocate returns a result without errors, that id gets no       *)
(* allocation, a COMPLIANCE warning carries it, and it does not raise.      *)
C10_UnknownAccountNotFatal ==
  (/\ policy = "CUSTOM_WEIGHTS" /\ pc \in {"done", "raised"}
   /\ ~EntryFails /\ ValidateWeights(parameters.weights) = <<>>) =>
    \A k \in 1..Len(parameters.weights) :
      LET id == parameters.weights[k].key
      IN id \notin AccountIdsOf(accounts) =>
           /\ raised = <<>>
           /\ NoErrorResult
           /\ \A j \in 1..Len(result[1].allocations) :
                result[1].allocations[j].account_id # id
           /\ [type |-> "COMPLIANCE", account_id |-> id]
                \in Range(result[1].warnings)

(* C11: every policy, every input: allocate returns a result and raises     *)
(* nothing, on the paths that append a warning and when the solver raises   *)
(* included.                                                                *)
C11_NoExceptionEscapes ==
  /\ raised = <<>>
  /\ pc # "raised"
  /\ pc = "done" => Returned

(* C12: MIN_DISPERSION: when the pro-rata fallback vector was used (the     *)
(* solver did not converge or raised), the metadata of the result records   *)
(* optimization_success = false.                                            *)
C12_FallbackRecorded ==
  (/\ policy = "MIN_DISPERSION" /\ NoErrorResult
   /\ optimization[1].message = "Fallback to pro-rata") =>
    result[1].metadata.optimization_success = FALSE

(* the fallback result replaced the solver's: allocate, lines 97-105 *)
FallbackUsed ==
  /\ policy = "MIN_DISPERSION" /\ optimization # <<>>
  /\ optimization[1].message = "Fallback to pro-rata"

(* allocated_quantity of an account in the result, 0 when it has no entry *)
AllocatedTo(account_id) ==
  LET hits == {j \in 1..Len(result[1].allocations) :
                 result[1].allocations[j].account_id = account_id}
  IN IF hits = {} THEN 0
     ELSE result[1].allocations[CHOOSE j \in hits : TRUE].allocated_quantity

(* order.quantity x NAV_k / sum of NAV, over Den = sum of NAV, rounded to    *)
(* lots with the remainder handed out by fractional part                    *)
ProRataByNavRounded ==
  RoundAllocations([k \in 1..Len(accounts) |-> order.quantity * accounts[k].nav],
                   Scaled(security.min_denomination), Scaled(order.quantity))

(* C13 as claimed: MIN_DISPERSION, the solver failed: every account is      *)
(* allocated exactly its pro-rata-by-NAV quantity rounded to                *)
(* min_denomination.                                                        *)
C13_FallbackIsProRata ==
  (NoErrorResult /\ FallbackUsed /\ TotalNav(accounts) > 0) =>
    \A k \in 1..Len(accounts) :
      AllocatedTo(accounts[k].account_id) = ProRataByNavRounded[k]

(* C13 as amended: MIN_DISPERSION, the solver failed, some account has NAV: *)
(* every account whose rounded pro-rata-by-NAV quantity reaches             *)
(* min_allocation and passes the final cash (BUY with respect_cash) or      *)
(* position (SELL) check is allocated exactly that quantity, which is a     *)
(* whole number of lots less than one lot away from                         *)
(* order.quantity x NAV_k / sum of NAV; every other account is allocated    *)
(* nothing.                                                                 *)
C13_FallbackIsFilteredProRata ==
  (NoErrorResult /\ FallbackUsed /\ TotalNav(accounts) > 0) =>
    \A k \in 1..Len(accounts) :
      LET q == ProRataByNavRounded[k]
          L == Scaled(security.min_denomination)
          kept ==
            /\ q >= Scaled(constraints.min_allocation)
            /\ (order.side = "BUY" /\ constraints.respect_cash) =>
                 q * EffectivePrice(order, security)
                   <= Scaled(accounts[k].available_cash)
            /\ order.side = "SELL" => q <= Scaled(accounts[k].current_position)
      IN /\ AllocatedTo(accounts[k].account_id) = (IF kept THEN q ELSE 0)
         /\ q % L = 0
         /\ Abs(q - order.quantity * accounts[k].nav) < L

(* C13 witness: after a failed solve one account keeps its rounded pro-rata *)
(* quantity and the other, which has NAV too, is filtered out               *)
C13_Witness ==
  /\ NoErrorResult /\ FallbackUsed
  /\ \A k \in 1..Len(accounts) : accounts[k].nav > 0
  /\ Len(result[1].allocations) = 1
  /\ AllocatedTo(accounts[1].account_id) = ProRataByNavRounded[1]
  /\ AllocatedTo(accounts[1].account_id) > 0

(* the pro-rata target of account k after the rounding of step 1, over Den *)
ProRataRoundedTarget(k) ==
  LET target == order.quantity * MetricValues(accounts, parameters.base_metric)[k]
  IN IF constraints.round_to_denomination
     THEN RoundToDenomination(target, Scaled(security.min_denomination))
     ELSE target

(* account k got nothing or less than its target because of its cash *)
CashLimited(k) ==
  /\ ProRataRoundedTarget(k) >= Scaled(constraints.min_allocation)
  /\ ProRataRoundedTarget(k) > 0
  /\ ProRataRoundedTarget(k) * EffectivePrice(order, security)
       > Scaled(accounts[k].available_cash)

(* C14: PRO_RATA, BUY with respect_cash (no concentration limit), some      *)
(* account cut or dropped because of its cash: on return either less than   *)
(* one lot is unallocated or no account can pay for one more lot out of its *)
(* available cash.                                                          *)
C14_CashShareRedistributed ==
  (/\ policy = "PRO_RATA" /\ NoErrorResult
   /\ order.side = "BUY" /\ constraints.respect_cash
   /\ constraints.max_concentration[1] = 0
   /\ \E k \in 1..Len(accounts) : CashLimited(k)) =>
    \/ result[1].summary.unallocated < Scaled(security.min_denomination)
    \/ \A k \in 1..Len(accounts) :
         (AllocatedTo(accounts[k].account_id) + Scaled(security.min_denomination))
           * EffectivePrice(order, security)
           > Scaled(accounts[k].available_cash)

(* C15: PRO_RATA by NAV, BUY, accounts of equal positive NAV, each with     *)
(* cash for the whole order (at the order's and at the security's price),   *)
(* no concentration limit, order.quantity a whole number of lots: any two   *)
(* accounts' allocations differ by at most one lot and the allocations sum  *)
(* to exactly order.quantity.                                               *)
C15_EqualNavEqualShares ==
  (/\ policy = "PRO_RATA" /\ NoErrorResult /\ order.side = "BUY"
   /\ parameters.base_metric = "NAV"
   /\ constraints.max_concentration[1] = 0
   /\ order.quantity % security.min_denomination = 0
   /\ \A k \in 1..Len(accounts) :
        /\ accounts[k].nav = accounts[1].nav /\ accounts[k].nav > 0
        /\ order.quantity * EffectivePrice(order, security)
             <= accounts[k].available_cash
        /\ order.quantity * security.price <= accounts[k].available_cash) =>
    /\ \A j, k \in 1..Len(accounts) :
         AllocatedTo(accounts[j].account_id) - AllocatedTo(accounts[k].account_id)
           <= Scaled(security.min_denomination)
    /\ SumSeq(AllocatedQuantities) = Scaled(order.quantity)

(* C16: MIN_DISPERSION on identical accounts (same NAV, cash and position)  *)
(* for which the solution vector, the solver's or the fallback's, gives     *)
(* every account the same quantity: after the rounding and the final        *)
(* filter any two accounts' allocated quantities differ by at most one lot. *)
C16_IdenticalAccountsEqualShares ==
  (/\ policy = "MIN_DISPERSION" /\ NoErrorResult
   /\ \A k \in 1..Len(accounts) :
        /\ accounts[k].nav = accounts[1].nav
        /\ accounts[k].available_cash = accounts[1].available_cash
        /\ accounts[k].current_position = accounts[1].current_position
        /\ optimization[1].allocations[k] = optimization[1].allocations[1]) =>
    \A j, k \in 1..Len(accounts) :
      AllocatedTo(accounts[j].account_id) - AllocatedTo(accounts[k].account_id)
        <= Scaled(security.min_denomination)

(* order.quantity x w, over Den, for the weight at position k *)
ExactTarget(k) == (Scaled(order.quantity) * parameters.weights[k].value) \div WeightDen

(* C17: CUSTOM_WEIGHTS, BUY, weights that sum to 1, every weighted account  *)
(* known and with cash for its target, every target order.quantity x w_i a  *)
(* whole number of lots that reaches min_allocation: each account is        *)
(* allocated exactly its target, the allocations sum to order.quantity, no  *)
(* warning is emitted.                                                      *)
C17_ExactTargetsAllocated ==
  (/\ policy = "CUSTOM_WEIGHTS" /\ pc \in {"done", "raised"}
   /\ ~EntryFails /\ order.side = "BUY"
   /\ parameters.weights # <<>>
   /\ WeightSum(parameters.weights) = WeightDen
   /\ \A k \in 1..Len(parameters.weights) :
        LET id == parameters.weights[k].key
        IN /\ id \in AccountIdsOf(accounts)
           /\ ExactTarget(k) % Scaled(security.min_denomination) = 0
           /\ ExactTarget(k) >= Scaled(constraints.min_allocation)
           /\ ExactTarget(k) * EffectivePrice(order, security)
                <= Scaled(AccountOf(id).available_cash)) =>
    /\ NoErrorResult
    /\ \A k \in 1..Len(parameters.weights) :
         AllocatedTo(parameters.weights[k].key) = ExactTarget(k)
    /\ SumSeq(AllocatedQuantities) = Scaled(order.quantity)
    /\ result[1].warnings = <<>>

C19_InputsUnchanged ==
  [][/\ inputs' = inputs
     /\ pc' = "start" =>
          /\ i' = 1 /\ total_allocated' = 0
          /\ allocations' = <<>> /\ warnings' = <<>>
          /\ optimization' = <<>> /\ rounded' = <<>>
          /\ result' = <<>> /\ raised' = <<>>]_vars

(* C19 witness: a second call starts after a first call that allocated to   *)
(* an account and warned about another                                      *)
C19_Witness ==
  /\ pc = "start" /\ earlier # <<>>
  /\ earlier[1].result # <<>>
  /\ earlier[1].result[1].errors = <<>>
  /\ earlier[1].result[1].allocations # <<>>
  /\ earlier[1].result[1].warnings # <<>>

(* account k carries a warning in the returned result *)
Warned(k) ==
  \E j \in 1..Len(result[1].warnings) :
    result[1].warnings[j].account_id = accounts[k].account_id

(* PRO_RATA: account k had a non-zero target and is not in the result *)
ProRataSkipped(k) ==
  /\ order.quantity * MetricValues(accounts, parameters.base_metric)[k] > 0
  /\ AllocatedTo(accounts[k].account_id) = 0

(* PRO_RATA: account k is in the result with less than its rounded target *)
ProRataReduced(k) ==
  /\ AllocatedTo(accounts[k].account_id) > 0
  /\ AllocatedTo(accounts[k].account_id) < ProRataRoundedTarget(k)

(* C20: a no-error PRO_RATA result has a warning with the account_id of     *)
(* every account that had a non-zero target and received nothing, and of    *)
(* every account whose allocation was cut below its rounded target.         *)
C20_SkippedOrReducedWarned ==
  (policy = "PRO_RATA" /\ pc = "done" /\ NoErrorResult) =>
    \A k \in 1..Len(accounts) :
      (ProRataSkipped(k) \/ ProRataReduced(k)) => Warned(k)

(* the rounded allocation of account k breaks the cash limit of a BUY with  *)
(* respect_cash or the position limit of a SELL                             *)
RoundedViolates(k) ==
  IF order.side = "BUY"
  THEN /\ constraints.respect_cash
       /\ rounded[k] * EffectivePrice(order, security)
            > Scaled(accounts[k].available_cash)
  ELSE rounded[k] > Scaled(accounts[k].current_position)

(* C23: MIN_DISPERSION, a no-error result: every allocation in the result   *)
(* is within the account's cash (BUY with respect_cash, at the effective    *)
(* price) or position (SELL); an account whose rounded allocation breaks    *)
(* the limit gets nothing, every other account gets its rounded allocation  *)
(* or nothing, so the dropped quantity stays unallocated.                   *)
C23_FinalConstraintsDrop ==
  (policy = "MIN_DISPERSION" /\ pc = "done" /\ NoErrorResult) =>
    \A k \in 1..Len(accounts) :
      LET got == AllocatedTo(accounts[k].account_id)
      IN /\ order.side = "BUY" /\ constraints.respect_cash =>
              got * EffectivePrice(order, security)
                <= Scaled(accounts[k].available_cash)
         /\ order.side = "SELL" => got <= Scaled(accounts[k].current_position)
         /\ RoundedViolates(k) => got = 0
         /\ got \in {0, rounded[k]}

(* C23 witness: a rounded allocation was dropped by the final check while   *)
(* another account kept its allocation                                      *)
C23_Witness ==
  /\ policy = "MIN_DISPERSION" /\ pc = "done" /\ NoErrorResult
  /\ \E k \in 1..Len(accounts) : RoundedViolates(k) /\ rounded[k] > 0
  /\ result[1].allocations # <<>>
  /\ result[1].summary.unallocated > 0

----------------------------------------------------------------------------
(* _round_allocations step by step, minimum_dispersion.py lines 389-417.    *)
(* The arguments are optimization[1].allocations, security.min_denomination *)
(* and order.quantity, as in the call at lines 108-112; rounded is the      *)
(* local array rounded, i the position of the for loop in sorted_indices.   *)

(* rounded[idx] += min_denomination and remainder -= min_denomination are   *)
(* operations on doubles.  A double holds 53 bits: for x of 2^54 lots or    *)
(* more, x + lot and x - lot round back to x (1e17 + 1.0 == 1e17).  The     *)
(* integers from Absorbing on stand for such doubles, in multiples of 2^54  *)
(* lots; below it the operations are exact.                                 *)
Absorbing == 1048576

FloatAdd(x, lot) == IF x >= Absorbing THEN x ELSE x + lot

FloatSubtract(x, lot) == IF x >= Absorbing THEN x ELSE x - lot

(* lines 397-406: floor to lots, remainder, sort by fractional part *)
RoundFloor ==
  /\ pc = "round"
  /\ LET allocs == optimization[1].allocations
         floored == [k \in 1..Len(allocs) |->
                       RoundToDenomination(allocs[k],
                                           Scaled(security.min_denomination))]
         left == Scaled(order.quantity) - SumSeq(floored)
     IN /\ rounded' = floored
        /\ round_remainder' = left
        /\ IF left >= Scaled(security.min_denomination)
           THEN /\ round_indices' =
                     ArgsortReversed([k \in 1..Len(allocs) |-> allocs[k] - floored[k]],
                                     1..Len(allocs))
                /\ pc' = "round_while"
           ELSE /\ round_indices' = round_indices
                /\ pc' = "round_return"
  /\ UNCHANGED <<http, inputs, earlier, i, allocations, total_allocated, warnings,
                 optimization, result, raised>>

(* line 409: the test of the while loop; line 410: the for loop starts *)
RoundWhile ==
  /\ pc = "round_while"
  /\ IF round_remainder >= Scaled(security.min_denomination)
     THEN pc' = "round_for" /\ i' = 1
     ELSE pc' = "round_return" /\ i' = i
  /\ UNCHANGED <<kernel, http, inputs, earlier, allocations, total_allocated,
                 warnings, optimization, rounded, result, raised>>

(* lines 410-415 giving a lot to every index of the pass *)
RoundForWholePass ==
  /\ pc = "round_for"
  /\ IF i > Len(round_indices)
     THEN /\ pc' = "round_while"
          /\ UNCHANGED <<i, rounded, round_remainder>>
     ELSE /\ rounded' = [rounded EXCEPT ![round_indices[i]] =
                           FloatAdd(@, Scaled(security.min_denomination))]
          /\ round_remainder' = FloatSubtract(round_remainder,
                                              Scaled(security.min_denomination))
          /\ i' = i + 1
          /\ pc' = pc
  /\ UNCHANGED <<http, inputs, earlier, round_indices, allocations, total_allocated,
                 warnings, optimization, result, raised>>

(* lines 410-415: one turn of the for loop: a lot for sorted_indices[i], or *)
(* break, or the end of the pass                                            *)
RoundFor ==
  /\ pc = "round_for"
  /\ IF i > Len(round_indices)
     THEN /\ pc' = "round_while"
          /\ UNCHANGED <<i, rounded, round_remainder>>
     ELSE IF round_remainder >= Scaled(security.min_denomination)
     THEN /\ rounded' = [rounded EXCEPT ![round_indices[i]] =
                           FloatAdd(@, Scaled(security.min_denomination))]
          /\ round_remainder' = FloatSubtract(round_remainder,
                                              Scaled(security.min_denomination))
          /\ i' = i + 1
          /\ pc' = pc
     ELSE /\ pc' = "round_while"
          /\ UNCHANGED <<i, rounded, round_remainder>>
  /\ UNCHANGED <<http, inputs, earlier, round_indices, allocations, total_allocated,
                 warnings, optimization, result, raised>>

(* line 417 *)
RoundReturn ==
  /\ pc = "round_return"
  /\ pc' = "round_done"
  /\ UNCHANGED <<kernel, http, inputs, earlier, i, allocations, total_allocated,
                 warnings, optimization, rounded, result, raised>>

NextRound ==
  \/ RoundFloor
  \/ RoundWhile
  \/ RoundFor
  \/ RoundReturn

(* Calls of _round_allocations: vectors of zero, one or two entries between *)
(* 0 and the total quantity, in halves of a unit (two accounts of NAV 1     *)
(* make Den 2), whole and not whole in lots, summing to the total quantity, *)
(* to less and to more; and the same with a total quantity and entries of   *)
(* 2^54 lots and more                                                       *)
RoundVectors(n, total) ==
  IF total < Absorbing
  THEN [1..n -> 0..Scaled(total)]
  ELSE [1..n -> {Scaled(Absorbing) * m : m \in 1..(total \div Absorbing)}]

InitRound ==
  /\ policy = "MIN_DISPERSION"
  /\ order \in [side : {"BUY"},
                 quantity : (1..MaxQuantity) \cup {Absorbing * q : q \in 1..MaxQuantity},
                 price : {0}]
  /\ security \in [price : {1}, min_denomination : {1, 2}, spread_duration : {1}]
  /\ constraints = [respect_cash |-> FALSE, min_allocation |-> security.min_denomination,
                    round_to_denomination |-> TRUE, max_concentration |-> <<0, 1>>]
  /\ parameters = [base_metric |-> "NAV", weights |-> <<>>]
  /\ accounts \in
       {<<a, b>> : a \in AccountRecords(AccountIds[1], {1}, {0}, {0}, {<<>>}),
                   b \in AccountRecords(AccountIds[2], {1}, {0}, {0}, {<<>>})}
  /\ \E n \in 0..Len(accounts) :
       \E x \in RoundVectors(n, order.quantity) :
         optimization = <<[allocations |-> x, success |-> TRUE,
                           message |-> "Optimization terminated successfully"]>>
  /\ pc = "round"
  /\ i = 1
  /\ allocations = <<>>
  /\ total_allocated = 0
  /\ warnings = <<>>
  /\ rounded = <<>>
  /\ result = <<>>
  /\ raised = <<>>
  /\ earlier = <<>>
  /\ round_remainder = 0
  /\ round_indices = <<>>
  /\ db = <<>>
  /\ audit_log = <<>>
  /\ requests = <<>>
  /\ uuids = 0

SpecRound == InitRound /\ [][NextRound]_vars

(* the handler runs on: a step is taken whenever one is possible *)
SpecRoundLive == SpecRound /\ WF_vars(NextRound)

(* the steps compute what RoundAllocations computes where doubles are exact *)
RoundStepsAgree ==
  (/\ pc = "round_done" /\ optimization[1].allocations # <<>>
   /\ order.quantity < Absorbing) =>
    rounded = RoundAllocations(optimization[1].allocations,
                               Scaled(security.min_denomination),
                               Scaled(order.quantity))

(* lots handed to entry k by the remainder loop *)
ExtraLots(k) ==
  (rounded[k] - RoundToDenomination(optimization[1].allocations[k],
                                    Scaled(security.min_denomination)))
    \div Scaled(security.min_denomination)

(* a_k - floor(a_k / L) * L *)
FractionalPart(k) ==
  optimization[1].allocations[k]
    - RoundToDenomination(optimization[1].allocations[k],
                          Scaled(security.min_denomination))

(* C24: _round_allocations on a vector of non-negative entries summing to   *)
(* at most the total quantity Q, lot size L: every output is a whole number *)
(* of lots, the outputs sum to at most Q, Q minus their sum is less than L, *)
(* and an entry with a larger fractional part is handed at least as many    *)
(* lots of the remainder as one with a smaller fractional part.             *)
C24_RoundedWithinTotal ==
  (/\ pc = "round_done"
   /\ SumSeq(optimization[1].allocations) <= Scaled(order.quantity)) =>
    /\ \A k \in 1..Len(rounded) : rounded[k] % Scaled(security.min_denomination) = 0
    /\ SumSeq(rounded) <= Scaled(order.quantity)
    /\ Scaled(order.quantity) - SumSeq(rounded) < Scaled(security.min_denomination)
    /\ \A j, k \in 1..Len(rounded) :
         FractionalPart(j) > FractionalPart(k) => ExtraLots(j) >= ExtraLots(k)

(* C24 witness: a vector with two different fractional parts, short of the  *)
(* total by more than two lots, was rounded                                 *)
C24_Witness ==
  /\ pc = "round_done" /\ Len(rounded) = 2
  /\ SumSeq(optimization[1].allocations) < Scaled(order.quantity)
  /\ FractionalPart(1) > FractionalPart(2)
  /\ ExtraLots(1) > ExtraLots(2)
  /\ ExtraLots(2) > 0

(* C25: _round_allocations on a vector whose entries are all 0 returns the  *)
(* all-zero vector, whatever the total quantity.                            *)
C25_ZerosStayZeros ==
  (/\ pc = "round_done"
   /\ \A k \in 1..Len(rounded) : optimization[1].allocations[k] = 0) =>
    \A k \in 1..Len(rounded) : rounded[k] = 0

(* C30: a call of _round_allocations on a vector with at least one entry    *)
(* returns.                                                                 *)
C30_RoundReturns ==
  (optimization[1].allocations # <<>>) ~> (pc = "round_done")

(* C26: MIN_DISPERSION with target ACTIVE_SPREAD_DURATION, a no-error       *)
(* result: for every allocated account the post-trade metric collected for  *)
(* the dispersion metrics and reported in the result equals the post-trade  *)
(* metric the objective computes for that account at its allocated          *)
(* quantity, ASD - (MV/NAV)*SD + (MV'/NAV)*SD.                              *)
C26_ReportedMetricIsObjectiveMetric ==
  (/\ policy = "MIN_DISPERSION" /\ pc = "done" /\ NoErrorResult
   /\ TargetMetric = "ACTIVE_SPREAD_DURATION") =>
    \A j \in 1..Len(result[1].allocations) :
      SameMetric(result[1].post_trade_metrics[j],
                 ObjectiveActiveSpreadDuration(
                   AccountOf(result[1].allocations[j].account_id),
                   result[1].allocations[j].allocated_quantity,
                   security, order))

(* C29: MIN_DISPERSION with target DURATION: the objective never raises     *)
(* inside minimize, so the optimization that allocate goes on with was      *)
(* never ended by an exception of the objective.                            *)
C29_DurationObjectiveEvaluates ==
  (/\ policy = "MIN_DISPERSION" /\ TargetMetric = "DURATION"
   /\ pc = "optimized") =>
    optimization[1].message # "UnboundLocalError"

----------------------------------------------------------------------------
(* SimpleAllocationEngine, factory.py lines 13-202: the engine behind POST  *)
(* /allocations/preview.  Quantities are whole numbers, account dicts carry *)
(* account_id, nav and available_cash.                                      *)

(* int(x / 1000) * 1000, lines 77, 88 and 136 *)
SimpleLot == 1000

(* SimpleAllocationEngine._allocate_pro_rata; the result as the list of     *)
(* dicts with account_id, allocated_quantity and available_cash             *)
SimpleAllocateProRata(order_quantity, accs, c, security_price) ==
  LET total_nav == TotalNav(accs)
      quantity(account) ==
        LET floored == ((order_quantity * account.nav) \div (total_nav * SimpleLot))
                         * SimpleLot
            reached == IF floored < c.min_allocation THEN 0 ELSE floored
        IN IF c.respect_cash /\ reached > 0
              /\ reached * security_price > account.available_cash
           THEN ((account.available_cash \div security_price) \div SimpleLot)
                  * SimpleLot
           ELSE reached
      taken == SelectSeq(accs, LAMBDA a : a.nav # 0 /\ quantity(a) > 0)
  IN IF total_nav = 0 THEN <<>>
     ELSE [k \in 1..Len(taken) |->
             [account_id |-> taken[k].account_id,
              allocated_quantity |-> quantity(taken[k]),
              available_cash |-> taken[k].available_cash]]

(* SimpleAllocationEngine._allocate_custom_weights; weights are numerators  *)
(* over WeightDen                                                           *)
SimpleAllocateCustomWeights(order_quantity, accs, c, weights_dict) ==
  LET quantity(account) ==
        LET weight == GetOr(weights_dict, account.account_id, 0)
            floored == ((order_quantity * weight) \div (WeightDen * SimpleLot))
                         * SimpleLot
        IN IF weight = 0 \/ floored < c.min_allocation THEN 0 ELSE floored
      taken == SelectSeq(accs, LAMBDA a : quantity(a) > 0)
  IN [k \in 1..Len(taken) |->
        [account_id |-> taken[k].account_id,
         allocated_quantity |-> quantity(taken[k]),
         available_cash |-> taken[k].available_cash]]

(* SimpleAllocationEngine._allocate_min_dispersion: the pro-rata result     *)
(* with 1000 taken from or added to some entries; enumerate counts from 0   *)
SimpleAllocateMinDispersion(order_quantity, accs, c, security_price) ==
  LET base == SimpleAllocateProRata(order_quantity, accs, c, security_price)
  IN [k \in 1..Len(base) |->
        IF (k - 1) % 2 = 0 /\ base[k].allocated_quantity > 2 * SimpleLot
        THEN [base[k] EXCEPT !.allocated_quantity = @ - SimpleLot]
        ELSE IF (k - 1) % 3 = 0 /\ base[k].allocated_quantity > 0
        THEN [base[k] EXCEPT !.allocated_quantity = @ + SimpleLot]
        ELSE base[k]]

(* SimpleAllocationEngine.allocate, lines 33-45 *)
SimpleEngineAllocate(method, order_quantity, accs, c, security_price, weights_dict) ==
  CASE method = "PRO_RATA" ->
         SimpleAllocateProRata(order_quantity, accs, c, security_price)
    [] method = "CUSTOM_WEIGHTS" ->
         SimpleAllocateCustomWeights(order_quantity, accs, c, weights_dict)
    [] method = "MIN_DISPERSION" ->
         SimpleAllocateMinDispersion(order_quantity, accs, c, security_price)

(* engine.allocate(...) as the preview handler calls it, allocations.py     *)
(* lines 229-234                                                            *)
SimpleAllocate ==
  /\ pc = "start"
  /\ result' = <<[allocations |->
                    SimpleEngineAllocate(policy, order.quantity, accounts,
                                         constraints, security.price,
                                         parameters.weights)]>>
  /\ pc' = "done"
  /\ UNCHANGED <<kernel, http, inputs, earlier, i, allocations, total_allocated,
                 warnings, optimization, rounded, raised>>

(* Calls of the simple engine: quantities and cash in whole lots of 1000,   *)
(* two accounts, weights 0, 1/2 and 1                                       *)
InitSimple ==
  /\ policy \in {"PRO_RATA", "CUSTOM_WEIGHTS", "MIN_DISPERSION"}
  /\ order \in [side : {"BUY"}, quantity : {SimpleLot * q : q \in 1..MaxQuantity},
                price : {0}]
  /\ security \in [price : {1, 2}, min_denomination : {SimpleLot},
                   spread_duration : {1}]
  /\ constraints \in [respect_cash : BOOLEAN, min_allocation : {SimpleLot},
                      round_to_denomination : {TRUE},
                      max_concentration : {<<0, 1>>}]
  /\ IF policy = "CUSTOM_WEIGHTS"
     THEN parameters \in [base_metric : {"NAV"},
                          weights : WeightDicts({AccountIds[1], AccountIds[2]},
                                                {0, WeightDen \div 2, WeightDen})]
     ELSE parameters = [base_metric |-> "NAV", weights |-> <<>>]
  /\ accounts \in
       {<<a, b>> :
          a \in AccountRecords(AccountIds[1], 0..MaxNav,
                               {SimpleLot * q : q \in 0..MaxCash}, {0}, {<<>>}),
          b \in AccountRecords(AccountIds[2], 0..MaxNav,
                               {SimpleLot * q : q \in 0..MaxCash}, {0}, {<<>>})}
  /\ InitLocals

SpecSimple == InitSimple /\ [][SimpleAllocate]_vars

(* C28: SimpleAllocationEngine, any method: the allocated quantities sum to *)
(* at most order_quantity and, with respect_cash, no allocated_quantity     *)
(* times security_price exceeds the account's available_cash.               *)
C28_SimpleWithinOrderAndCash ==
  (pc = "done" /\ result # <<>>) =>
    LET out == result[1].allocations
    IN /\ SumSeq([k \in 1..Len(out) |-> out[k].allocated_quantity])
            <= order.quantity
       /\ constraints.respect_cash =>
            \A k \in 1..Len(out) :
              out[k].allocated_quantity * security.price <= out[k].available_cash

----------------------------------------------------------------------------
(* The HTTP lifecycle, app/api/allocations.py: POST /allocations/preview    *)
(* and POST /allocations/<allocation_id>/commit.  Handlers of different     *)
(* requests run concurrently, each with its own database session; the       *)
(* database is read and written only at the calls of AllocationService.     *)
(* A uuid4() value is the number of values drawn before it plus one.        *)

MaxRequests == 3      \* requests received in one behaviour

(* everything the HTTP handlers leave alone *)
engine == <<inputs, locals, result, raised, earlier, kernel>>

(* db.query(Allocation).filter_by(allocation_id=...).first(): the index of  *)
(* the row, 0 for None                                                      *)
QueryAllocation(rows, allocation_id) ==
  IF \E k \in 1..Len(rows) : rows[k].allocation_id = allocation_id
  THEN CHOOSE k \in 1..Len(rows) : rows[k].allocation_id = allocation_id
  ELSE 0

(* the ids a client can send: those returned by previews, those of the      *)
(* stored rows, and one that was never given out                            *)
ClientIds ==
  {0} \cup {requests[r].allocation_id : r \in 1..Len(requests)}
      \cup {db[k].allocation_id : k \in 1..Len(db)}

(* AllocationPreview.post, lines 145-333, for a request that passes the     *)
(* validation: the engine call, the response's allocation_id (line 237),    *)
(* create_allocation with its own id (database_service.py line 29),         *)
(* add_allocation_details, the audit entry and the response                 *)
PreviewPost ==
  /\ Len(requests) < MaxRequests
  /\ LET allocation_results ==
           SimpleEngineAllocate(policy, order.quantity, accounts, constraints,
                                security.price, parameters.weights)
         allocation_id == uuids + 1
         db_allocation ==
           [allocation_id |-> uuids + 2, status |-> "PREVIEW",
            details |-> [k \in 1..Len(allocation_results) |->
                           [account_id |-> allocation_results[k].account_id,
                            allocated_quantity |->
                              allocation_results[k].allocated_quantity,
                            aladdin_order_id |-> 0]]]
     IN /\ uuids' = uuids + 2
        /\ db' = Append(db, db_allocation)
        /\ audit_log' = Append(audit_log, [action |-> "PREVIEW_ALLOCATION",
                                           entity_id |-> allocation_id])
        /\ requests' = Append(requests,
             [endpoint |-> "preview", allocation_id |-> allocation_id,
              pc |-> "responded", code |-> 200, aborted |-> 0, status |-> "",
              aladdin_order_ids |-> <<>>, allocation_data |-> <<>>])
  /\ UNCHANGED engine

(* AllocationCommit.post, lines 356-373 and 430-432: the row is read; the   *)
(* abort(404) and abort(400) raised inside the try are exceptions, caught   *)
(* by "except Exception" at line 430, which answers 500                     *)
CommitRead(allocation_id) ==
  /\ Len(requests) < MaxRequests
  /\ LET found == QueryAllocation(db, allocation_id)
         aborted == IF found = 0 THEN 404
                    ELSE IF db[found].status = "COMMITTED" THEN 400 ELSE 0
     IN requests' = Append(requests,
          [endpoint |-> "commit", allocation_id |-> allocation_id,
           pc |-> IF aborted = 0 THEN "submit" ELSE "responded",
           code |-> IF aborted = 0 THEN 0 ELSE 500,
           aborted |-> aborted, status |-> "",
           aladdin_order_ids |-> <<>>,
           allocation_data |-> IF found = 0 THEN <<>> ELSE db[found].details])
  /\ UNCHANGED <<db, audit_log, uuids, engine>>

(* AllocationService.commit_allocation, database_service.py lines 169-193:  *)
(* the row is read again, its status set whatever it was, each detail given *)
(* the order id of its account.  Rows are never deleted, so the row a       *)
(* handler has read is found.                                               *)
CommitAllocation(rows, allocation_id, aladdin_order_ids) ==
  LET found == QueryAllocation(rows, allocation_id)
      order_id(detail) ==
        LET matching == SelectSeq(aladdin_order_ids,
                                  LAMBDA o : o.account_id = detail.account_id)
        IN IF matching = <<>> THEN detail.aladdin_order_id
           ELSE matching[Len(matching)].order_id
      details == rows[found].details
  IN [rows EXCEPT ![found].status = "COMMITTED",
                  ![found].details =
        [k \in 1..Len(details) |->
           [details[k] EXCEPT !.aladdin_order_id = order_id(details[k])]]]

(* AllocationCommit.post, lines 375-425: one simulated order id for each    *)
(* detail that was read, commit_allocation, the audit entry, the response   *)
CommitWrite(r) ==
  /\ requests[r].pc = "submit"
  /\ LET allocation_data == requests[r].allocation_data
         aladdin_order_ids ==
           [k \in 1..Len(allocation_data) |->
              [account_id |-> allocation_data[k].account_id,
               order_id |-> uuids + k]]
     IN /\ uuids' = uuids + Len(allocation_data)
        /\ db' = CommitAllocation(db, requests[r].allocation_id, aladdin_order_ids)
        /\ audit_log' = Append(audit_log,
             [action |-> "COMMIT_ALLOCATION",
              entity_id |-> requests[r].allocation_id])
        /\ requests' = [requests EXCEPT
             ![r].pc = "responded", ![r].code = 200, ![r].status = "SUCCESS",
             ![r].aladdin_order_ids =
               [k \in 1..Len(aladdin_order_ids) |-> aladdin_order_ids[k].order_id]]
  /\ UNCHANGED engine

NextHttp ==
  \/ PreviewPost
  \/ \E allocation_id \in ClientIds : CommitRead(allocation_id)
  \/ \E r \in 1..Len(requests) : CommitWrite(r)

(* The preview request of every behaviour: an order of two lots of 1000 at  *)
(* price 1 for two mock accounts, each with or without NAV, cash for the    *)
(* whole order, the default constraints                                     *)
InitHttp ==
  /\ policy \in {"PRO_RATA", "MIN_DISPERSION"}
  /\ order = [side |-> "BUY", quantity |-> 2 * SimpleLot, price |-> 0]
  /\ security = [price |-> 1, min_denomination |-> SimpleLot, spread_duration |-> 1]
  /\ constraints = [respect_cash |-> TRUE, min_allocation |-> SimpleLot,
                    round_to_denomination |-> TRUE, max_concentration |-> <<0, 1>>]
  /\ parameters = [base_metric |-> "NAV", weights |-> <<>>]
  /\ accounts \in
       {<<a, b>> :
          a \in AccountRecords(AccountIds[1], {0, 1}, {2 * SimpleLot}, {0}, {<<>>}),
          b \in AccountRecords(AccountIds[2], {0, 1}, {2 * SimpleLot}, {0}, {<<>>})}
  /\ InitLocals

SpecHttp == InitHttp /\ [][NextHttp]_vars

(* C21: after a successful preview the allocation_id of its response        *)
(* identifies the stored record, so the first commit request with that id,  *)
(* once answered, has found the record and committed it: response SUCCESS,  *)
(* stored status COMMITTED, one order id for each stored detail.            *)
C21_ReturnedIdCommits ==
  \A p \in 1..Len(requests) : \A r \in 1..Len(requests) :
    (/\ requests[p].endpoint = "preview"
     /\ requests[p].code = 200
     /\ requests[r].endpoint = "commit"
     /\ requests[r].pc = "responded"
     /\ requests[r].allocation_id = requests[p].allocation_id
     /\ \A e \in 1..(r - 1) :
          ~(/\ requests[e].endpoint = "commit"
            /\ requests[e].allocation_id = requests[r].allocation_id))
    => LET found == QueryAllocation(db, requests[r].allocation_id)
       IN /\ requests[r].status = "SUCCESS"
          /\ found # 0
          /\ db[found].status = "COMMITTED"
          /\ Len(requests[r].aladdin_order_ids) = Len(db[found].details)

(* C22: a commit request for an allocation stored as COMMITTED is answered  *)
(* 400 and one for an unknown id 404; in both cases no order id is          *)
(* generated, no audit entry is written and the stored rows are unchanged.  *)
C22_RejectedCommit ==
  [][LET n == Len(requests')
         found == QueryAllocation(db, requests'[n].allocation_id)
     IN (/\ n = Len(requests) + 1
         /\ requests'[n].endpoint = "commit"
         /\ IF found = 0 THEN TRUE ELSE db[found].status = "COMMITTED")
        => /\ requests'[n].code = IF found = 0 THEN 404 ELSE 400
           /\ requests'[n].aladdin_order_ids = <<>>
           /\ UNCHANGED <<db, audit_log, uuids>>]_vars

(* C27: whatever the interleaving of the commit requests for one allocation *)
(* id, at most one of them generates order ids and sets the status to       *)
(* COMMITTED.                                                               *)
C27_OrdersSubmittedOnce ==
  \A r1 \in 1..Len(requests) : \A r2 \in 1..Len(requests) :
    (/\ r1 # r2
     /\ requests[r1].endpoint = "commit"
     /\ requests[r2].endpoint = "commit"
     /\ requests[r1].allocation_id = requests[r2].allocation_id)
    => ~(/\ requests[r1].aladdin_order_ids # <<>>
         /\ requests[r2].aladdin_order_ids # <<>>)

====
